---- MODULE Spec2Model ----
(***************************************************************************)
(* Verification model of kelydev/apiGrupos: the pagination resolver, the   *)
(* group aggregation queries (listing and filtered search), the            *)
(* transactional composite writer and the attachment handling of the       *)
(* group update handler.                                                   *)
(*                                                                         *)
(* Text values are sequences of one-character strings, so that parsing,    *)
(* concatenation and substring matching are computed, not assumed.         *)
(***************************************************************************)
EXTENDS Integers, Sequences, FiniteSets, TLC

VARIABLES
    pageStr,      \* raw "page" query value of the request being resolved
    limitStr,     \* raw "limit" query value of the request being resolved
    pgOut,        \* result of GetPaginationParams, or NoResp before the call
    grupo,        \* table grupo: idGrupo -> row
    nextGrupoId,  \* sequence behind the SERIAL column grupo.idGrupo
    links,        \* table Grupo_Investigador: set of rows
    nextLinkId,   \* sequence behind the SERIAL column idGrupo_Investigador
    investigador, \* table investigador: set of the idInvestigador present
    resp,         \* response being written, or NoResp
    drive,        \* attachment service: set of stored file ids
    nextFileId,   \* next identifier the attachment service hands out
    procs,        \* in-flight UpdateGrupoHandler requests
    tx            \* CreateGrupoWithDetailsHandler request and its transaction

vars == <<pageStr, limitStr, pgOut, grupo, nextGrupoId, links, nextLinkId,
          investigador, resp, drive, nextFileId, procs, tx>>

pagVars == <<pageStr, limitStr, pgOut>>
storeVars == <<grupo, nextGrupoId, links, nextLinkId, investigador>>
driveVars == <<drive, nextFileId>>


(***************************************************************************)
(* Bounds of the model.                                                    *)
(***************************************************************************)
MaxPageLen == 2
MaxLimitLen == 3

(***************************************************************************)
(* Text helpers.                                                           *)
(***************************************************************************)
Chars == {"-", "+", "0", "1", "5", "a"}

RawStrings(n) == UNION {[1..k -> Chars] : k \in 0..n}

IsDigit(c) == c \in {"0", "1", "2", "3", "4", "5", "6", "7", "8", "9"}

DigitVal(c) ==
    CASE c = "0" -> 0 [] c = "1" -> 1 [] c = "2" -> 2 [] c = "3" -> 3
      [] c = "4" -> 4 [] c = "5" -> 5 [] c = "6" -> 6 [] c = "7" -> 7
      [] c = "8" -> 8 [] c = "9" -> 9

(***************************************************************************)
(* strconv.Atoi as called by GetPaginationParams: an optional sign, then   *)
(* at least one decimal digit, accumulated left to right; anything else    *)
(* is a syntax error, and a value outside the range of int is a range      *)
(* error.  The result is [ok, val]; val is 0 on error.                     *)
(*                                                                         *)
(* Go's int has 64 bits on the platforms the server is built for.  The     *)
(* model keeps the two's complement arithmetic and scales the width down   *)
(* to IntBits bits.                                                        *)
(***************************************************************************)
IntBits == 16

MaxInt == 2^(IntBits - 1) - 1
MinInt == 0 - 2^(IntBits - 1)

\* Result of an int operation whose mathematical value is x.
WrapInt(x) == ((x - MinInt) % 2^IntBits) + MinInt

RECURSIVE AtoiDigits(_, _, _)
AtoiDigits(s, i, n) ==
    IF i > Len(s) THEN [ok |-> TRUE, val |-> n]
    ELSE IF ~IsDigit(s[i]) THEN [ok |-> FALSE, val |-> 0]
    ELSE AtoiDigits(s, i + 1, n * 10 + DigitVal(s[i]))

Atoi(s) ==
    IF Len(s) = 0 THEN [ok |-> FALSE, val |-> 0]
    ELSE LET signed == s[1] \in {"-", "+"}
             body == IF signed THEN Tail(s) ELSE s
         IN  IF Len(body) < 1 THEN [ok |-> FALSE, val |-> 0]
             ELSE LET r == AtoiDigits(body, 1, 0)
                      v == IF s[1] = "-" THEN 0 - r.val ELSE r.val
                  IN  IF r.ok /\ v >= MinInt /\ v <= MaxInt THEN [ok |-> TRUE, val |-> v]
                      ELSE [ok |-> FALSE, val |-> 0]

(***************************************************************************)
(* GetPaginationParams (utils/pagination.go).                              *)
(***************************************************************************)
DefaultPage == 1
DefaultLimit == 6
MaxLimit == 100

ResolvePageAllowZero(ps) ==
    LET p == Atoi(ps)
    IN  IF ~p.ok \/ p.val < 0 THEN DefaultPage ELSE p.val

ResolvePage(ps) ==
    LET p == Atoi(ps)
    IN  IF ~p.ok \/ p.val < 1 THEN DefaultPage ELSE p.val

ResolveLimitNoClamp(ls) ==
    LET l == Atoi(ls)
    IN  IF ~l.ok \/ l.val < 1 THEN DefaultLimit ELSE l.val

ResolveLimit(ls) ==
    LET l == Atoi(ls)
        limit0 == IF ~l.ok \/ l.val < 1 THEN DefaultLimit ELSE l.val
    IN  IF limit0 > MaxLimit THEN MaxLimit ELSE limit0

GetPaginationParams(ps, ls) ==
    [page |-> ResolvePage(ps), limit |-> ResolveLimit(ls)]

(***************************************************************************)
(* Relational store: seed data and bounds.                                 *)
(***************************************************************************)
MaxGrupos == 3
MaxLinks == 2

\* Table investigador (idInvestigador -> nombre, apellido).
Investigadores ==
    (1 :> [nombre |-> <<"Á", "n", "a">>, apellido |-> <<"L", "o">>]) @@
    (2 :> [nombre |-> <<"L", "u">>, apellido |-> <<"P", "a">>])

Roles == {"Coordinador", "Integrante"}

\* Group payloads of the create requests; the k-th insert uses payload
\* ((k-1) mod 3)+1.
GrupoPayloads ==
    << [nombre |-> <<"a", "B">>, numeroResolucion |-> <<"r">>, linea |-> <<"x">>,
        tipo |-> <<"t">>, year |-> 2024],
       [nombre |-> <<"a">>, numeroResolucion |-> <<"r">>, linea |-> <<"x">>,
        tipo |-> <<"t">>, year |-> 2024],
       [nombre |-> <<"a", "B">>, numeroResolucion |-> <<"s">>, linea |-> <<"y">>,
        tipo |-> <<"u">>, year |-> 2023] >>

PayloadFor(id) == GrupoPayloads[((id - 1) % Len(GrupoPayloads)) + 1]

\* Query-string values of the five search filters (<<>> = filter absent).
GrupoFilters == {<< >>, <<"b">>}
InvestigadorFilters == {<< >>, <<"a", " ", "l">>}
YearFilters == {<< >>, <<"2", "0", "2", "4">>}
LineaFilters == {<< >>, <<"X">>}
TipoFilters == {<< >>, <<"t">>}
PageInputs == {<< >>, <<"2">>, <<"3">>, <<"1", "0", "9", "2", "4">>}
LimitInputs == {<< >>, <<"1">>, <<"2">>}

Filters ==
    [grupo : GrupoFilters, investigador : InvestigadorFilters, year : YearFilters,
     linea : LineaFilters, tipo : TipoFilters]

NullLink == [id |-> 0, idGrupo |-> 0, idInvestigador |-> 0, rol |-> ""]

(***************************************************************************)
(* unaccent(x) ILIKE unaccent('%' || f || '%'): accent- and case-folded    *)
(* substring match.                                                        *)
(***************************************************************************)
FoldChar(c) ==
    CASE c = "Á" -> "a" [] c = "á" -> "a" [] c = "A" -> "a" [] c = "B" -> "b"
      [] c = "L" -> "l" [] c = "P" -> "p" [] c = "X" -> "x"
      [] OTHER -> c

Fold(s) == [i \in 1..Len(s) |-> FoldChar(s[i])]

Contains(hay, needle) ==
    \E i \in 0..(Len(hay) - Len(needle)) :
        \A j \in 1..Len(needle) : hay[i + j] = needle[j]

ILike(value, f) == Contains(Fold(value), Fold(f))

\* i.nombre || ' ' || i.apellido
FullName(invId) == Investigadores[invId].nombre \o <<" ">> \o Investigadores[invId].apellido

(***************************************************************************)
(* Collation order of text columns (ORDER BY nombre): lexicographic.       *)
(***************************************************************************)
CharRank(c) ==
    CASE c = " " -> 0 [] c = "a" -> 1 [] c = "A" -> 2 [] c = "á" -> 3 [] c = "Á" -> 4
      [] c = "b" -> 5 [] c = "B" -> 6 [] c = "l" -> 7 [] c = "L" -> 8 [] c = "n" -> 9
      [] c = "o" -> 10 [] c = "p" -> 11 [] c = "P" -> 12 [] c = "t" -> 13 [] c = "u" -> 14
      [] c = "x" -> 15 [] c = "X" -> 16 [] c = "y" -> 17
      [] OTHER -> 18

RECURSIVE StrCmp(_, _, _)
\* -1, 0, 1 for a < b, a = b, a > b, comparing from position i
StrCmp(a, b, i) ==
    IF i > Len(a) /\ i > Len(b) THEN 0
    ELSE IF i > Len(a) THEN 0 - 1
    ELSE IF i > Len(b) THEN 1
    ELSE IF CharRank(a[i]) < CharRank(b[i]) THEN 0 - 1
    ELSE IF CharRank(a[i]) > CharRank(b[i]) THEN 1
    ELSE StrCmp(a, b, i + 1)

(***************************************************************************)
(* SQL building blocks.                                                    *)
(***************************************************************************)
\* The same FROM clause with inner joins: groups without links yield no row.
JoinRowsInner(G, L) ==
    {[gid |-> l.idGrupo, link |-> l] : l \in {x \in L : x.idGrupo \in DOMAIN G}}

\* FROM grupo g LEFT JOIN Grupo_Investigador dgi ... LEFT JOIN investigador i
JoinRows(G, L) ==
    UNION {IF \E x \in L : x.idGrupo = g
           THEN {[gid |-> g, link |-> l] : l \in {x \in L : x.idGrupo = g}}
           ELSE {[gid |-> g, link |-> NullLink]} : g \in DOMAIN G}

\* ORDER BY: the sequence of the elements of S in the strict total order lt,
\* given as a function on pairs (lt[x, y] iff x sorts before y).
RECURSIVE SortBy(_, _)
SortBy(S, lt) ==
    IF S = {} THEN << >>
    ELSE LET m == CHOOSE x \in S : \A y \in S \ {x} : lt[x, y]
         IN  <<m>> \o SortBy(S \ {m}, lt)

\* The store refuses a statement whose OFFSET is negative.
OffsetRejected(offset) == offset < 0

\* LIMIT limit OFFSET offset
LimitOffset(seq, limit, offset) ==
    SubSeq(seq, offset + 1, IF offset + limit < Len(seq) THEN offset + limit ELSE Len(seq))

SeqToSet(seq) == {seq[i] : i \in 1..Len(seq)}

(***************************************************************************)
(* SearchGrupos (repository): dynamic WHERE clause, count over the         *)
(* FilteredGroups CTE, PaginatedGroupIDs CTE, detail query, Go collapse.   *)
(***************************************************************************)
\* The WHERE clause built from the non-empty filters, evaluated on a join row.
WhereConditions(G, row, f) ==
    /\ f.grupo = << >> \/ ILike(G[row.gid].nombre, f.grupo)
    /\ f.investigador = << >>
          \/ (row.link.id # 0 /\ ILike(FullName(row.link.idInvestigador), f.investigador))
    /\ f.year = << >> \/ G[row.gid].year = Atoi(f.year).val
    /\ f.linea = << >> \/ ILike(G[row.gid].linea, f.linea)
    /\ f.tipo = << >> \/ ILike(G[row.gid].tipo, f.tipo)

MatchingRows(G, L, f) == {row \in JoinRows(G, L) : WhereConditions(G, row, f)}

\* WITH FilteredGroups AS (SELECT DISTINCT g.idGrupo ... WHERE 1=1 ...)
FilteredGroups(G, L, f) == {row.gid : row \in MatchingRows(G, L, f)}

FilteredGroupsCountRows(G, L, f) == Cardinality(MatchingRows(G, L, f))

\* SELECT COUNT(*) FROM FilteredGroups
FilteredGroupsCount(G, L, f) == Cardinality(FilteredGroups(G, L, f))

\* PaginatedGroupIDs: SELECT idGrupo FROM FilteredGroups ORDER BY idGrupo LIMIT .. OFFSET ..
PaginatedGroupIDs(G, L, f, limit, offset) ==
    LET S == FilteredGroups(G, L, f)
    IN  LimitOffset(SortBy(S, [p \in S \X S |-> p[1] < p[2]]), limit, offset)

SearchDataRowsMatchingOnly(G, L, f, limit, offset, tb) ==
    LET ids == SeqToSet(PaginatedGroupIDs(G, L, f, limit, offset))
        S == {row \in MatchingRows(G, L, f) : row.gid \in ids}
        lt == [p \in S \X S |->
                  \/ p[1].gid < p[2].gid
                  \/ /\ p[1].gid = p[2].gid
                     /\ \/ p[1].link.idInvestigador < p[2].link.idInvestigador
                        \/ /\ p[1].link.idInvestigador = p[2].link.idInvestigador
                           /\ tb[p[1].link.id] < tb[p[2].link.id]]
    IN  SortBy(S, lt)

\* Main query: all join rows of the paginated ids,
\* ORDER BY g.idGrupo, i.idInvestigador; rows equal on both keys come in
\* an order the database chooses (tb).
SearchDataRows(G, L, f, limit, offset, tb) ==
    LET ids == SeqToSet(PaginatedGroupIDs(G, L, f, limit, offset))
        S == {row \in JoinRows(G, L) : row.gid \in ids}
        lt == [p \in S \X S |->
                  \/ p[1].gid < p[2].gid
                  \/ /\ p[1].gid = p[2].gid
                     /\ \/ p[1].link.idInvestigador < p[2].link.idInvestigador
                        \/ /\ p[1].link.idInvestigador = p[2].link.idInvestigador
                           /\ tb[p[1].link.id] < tb[p[2].link.id]]
    IN  SortBy(S, lt)

InvestigadorConRol(link) == [id |-> link.idInvestigador, rol |-> link.rol]

\* for rows.Next() { ... } of SearchGrupos: grupoMap and orderedGrupos.
RECURSIVE SearchCollapse(_, _, _, _)
SearchCollapse(rows, i, grupoMap, orderedGrupos) ==
    IF i > Len(rows)
    THEN [k \in 1..Len(orderedGrupos) |-> grupoMap[orderedGrupos[k]]]
    ELSE LET row == rows[i]
             exists == row.gid \in DOMAIN grupoMap
             map1 == IF exists THEN grupoMap
                     ELSE grupoMap @@ (row.gid :> [id |-> row.gid, investigadores |-> << >>])
             ord1 == IF exists THEN orderedGrupos ELSE Append(orderedGrupos, row.gid)
             map2 == IF row.link.idInvestigador # 0
                     THEN [map1 EXCEPT ![row.gid].investigadores =
                               Append(@, InvestigadorConRol(row.link))]
                     ELSE map1
         IN  SearchCollapse(rows, i + 1, map2, ord1)

EmptyMap == [x \in {} |-> 0]

ErrResult == [err |-> TRUE, items |-> << >>, totalItems |-> 0]

\* Ways the data query can fail: db.Query, rows.Scan inside the loop, and
\* rows.Err() after it; each makes the function return nil, 0, err.
DataFails == {"data", "scan", "iter"}

SearchGrupos(G, L, f, limit, offset, fail, tb) ==
    IF fail = "count" \/ (f.year # << >> /\ ~Atoi(f.year).ok) THEN ErrResult
    ELSE LET totalItems == FilteredGroupsCount(G, L, f)
         IN  IF totalItems = 0 THEN [err |-> FALSE, items |-> << >>, totalItems |-> 0]
             ELSE IF fail \in DataFails \/ OffsetRejected(offset) THEN ErrResult
             ELSE [err |-> FALSE,
                   items |-> SearchCollapse(SearchDataRows(G, L, f, limit, offset, tb),
                                            1, EmptyMap, << >>),
                   totalItems |-> totalItems]

(***************************************************************************)
(* GetAllGruposWithDetails (repository): count, id page ordered by         *)
(* (nombre, idGrupo), detail query for those ids, collapse with            *)
(* de-duplication by investigator id, result in the order of the id page.  *)
(***************************************************************************)
\* ORDER BY nombre, idGrupo
GrupoNameIdLess(G, a, b) ==
    \/ StrCmp(G[a].nombre, G[b].nombre, 1) < 0
    \/ StrCmp(G[a].nombre, G[b].nombre, 1) = 0 /\ a < b

PaginatedIDsByIdOnly(G, limit, offset) ==
    LET S == DOMAIN G
    IN  LimitOffset(SortBy(S, [p \in S \X S |-> p[1] < p[2]]), limit, offset)

\* SELECT idGrupo FROM grupo ORDER BY nombre, idGrupo LIMIT $1 OFFSET $2
PaginatedIDsQuery(G, limit, offset) ==
    LET S == DOMAIN G
    IN  LimitOffset(SortBy(S, [p \in S \X S |-> GrupoNameIdLess(G, p[1], p[2])]), limit, offset)

\* Sort key of the joined investigator columns; NULLs sort last.
InvNameCmp(l1, l2) ==
    IF l1.id = 0 \/ l2.id = 0 THEN 0
    ELSE LET c == StrCmp(Investigadores[l1.idInvestigador].apellido,
                         Investigadores[l2.idInvestigador].apellido, 1)
         IN  IF c # 0 THEN c
             ELSE StrCmp(Investigadores[l1.idInvestigador].nombre,
                         Investigadores[l2.idInvestigador].nombre, 1)

\* detailsQuery: ... WHERE g.idGrupo IN (ids)
\* ORDER BY g.nombre, g.idGrupo, invApellido, invNombre; ties in tb order.
DetailsQuery(G, L, ids, tb) ==
    LET S == {row \in JoinRows(G, L) : row.gid \in ids}
        lt == [p \in S \X S |->
                  \/ GrupoNameIdLess(G, p[1].gid, p[2].gid)
                  \/ /\ p[1].gid = p[2].gid
                     /\ \/ InvNameCmp(p[1].link, p[2].link) < 0
                        \/ /\ InvNameCmp(p[1].link, p[2].link) = 0
                           /\ tb[p[1].link.id] < tb[p[2].link.id]]
    IN  SortBy(S, lt)

\* for rowsDetails.Next() { ... } of GetAllGruposWithDetails
RECURSIVE DetailsCollapse(_, _, _)
DetailsCollapse(rows, i, grupoMap) ==
    IF i > Len(rows) THEN grupoMap
    ELSE LET row == rows[i]
             map1 == IF row.gid \in DOMAIN grupoMap THEN grupoMap
                     ELSE grupoMap @@ (row.gid :> [id |-> row.gid, investigadores |-> << >>])
             cur == map1[row.gid].investigadores
             found == \E k \in 1..Len(cur) : cur[k].id = row.link.idInvestigador
             map2 == IF row.link.idInvestigador # 0 /\ ~found
                     THEN [map1 EXCEPT ![row.gid].investigadores =
                               Append(@, InvestigadorConRol(row.link))]
                     ELSE map1
         IN  DetailsCollapse(rows, i + 1, map2)

\* for _, id := range groupIDOrder { if grupoData, ok := grupoMap[id]; ok {...} }
RECURSIVE BuildResult(_, _, _)
BuildResult(groupIDOrder, i, grupoMap) ==
    IF i > Len(groupIDOrder) THEN << >>
    ELSE (IF groupIDOrder[i] \in DOMAIN grupoMap
          THEN <<grupoMap[groupIDOrder[i]]>> ELSE << >>)
         \o BuildResult(groupIDOrder, i + 1, grupoMap)

GetAllGruposWithDetails(G, L, limit, offset, fail, tb) ==
    IF fail = "count" THEN ErrResult
    ELSE LET totalItems == Cardinality(DOMAIN G)
         IN  IF totalItems = 0 THEN [err |-> FALSE, items |-> << >>, totalItems |-> 0]
             ELSE IF fail = "ids" \/ OffsetRejected(offset) THEN ErrResult
             ELSE LET groupIDOrder == PaginatedIDsQuery(G, limit, offset)
                  IN  IF Len(groupIDOrder) = 0
                      THEN [err |-> FALSE, items |-> << >>, totalItems |-> totalItems]
                      ELSE IF fail \in DataFails THEN ErrResult
                      ELSE [err |-> FALSE,
                            items |-> BuildResult(groupIDOrder, 1,
                                        DetailsCollapse(
                                          DetailsQuery(G, L, SeqToSet(groupIDOrder), tb),
                                          1, EmptyMap)),
                            totalItems |-> totalItems]

(***************************************************************************)
(* GetGruposHandler (GET /grupos).                                         *)
(***************************************************************************)
\* The least integer not below a/b.
CeilDiv(a, b) == IF a % b = 0 THEN a \div b ELSE (a \div b) + 1

\* Significant bits of a float64 (53 in the build), scaled with IntBits.
MantBits == 11

\* num/den rounded to the nearest integer, ties to the even one.
RoundHalfEven(num, den) ==
    LET q == num \div den
        r == num % den
    IN  IF 2 * r < den THEN q
        ELSE IF 2 * r > den THEN q + 1
        ELSE IF q % 2 = 0 THEN q ELSE q + 1

\* The float64 nearest to (num/den) * 2^e for num, den > 0, as a mantissa of
\* MantBits bits and an exponent: its value is mant * 2^e.
RECURSIVE FloatOf(_, _, _)
FloatOf(num, den, e) ==
    IF num < 2^(MantBits - 1) * den THEN FloatOf(2 * num, den, e - 1)
    ELSE IF num >= 2^MantBits * den THEN FloatOf(num, 2 * den, e + 1)
    ELSE [mant |-> RoundHalfEven(num, den), e |-> e]

\* float64(n) of an int n >= 0; the result is again an integer.
Float64(n) ==
    IF n < 2^MantBits THEN n
    ELSE LET f == FloatOf(n, 1, 0) IN f.mant * 2^(f.e)

\* int(math.Ceil(f))
Ceil(f) == IF f.e >= 0 THEN f.mant * 2^(f.e) ELSE CeilDiv(f.mant, 2^(0 - f.e))

\* totalPages := 0; if totalItems > 0 { totalPages = int(math.Ceil(
\*     float64(totalItems) / float64(limit))) }
TotalPages(totalItems, limit) ==
    IF totalItems > 0 THEN Ceil(FloatOf(Float64(totalItems), limit, 0)) ELSE 0

\* models.PaginationMetadata{TotalItems, TotalPages, CurrentPage, Limit}
PaginationMetadata(totalItems, page, limit) ==
    [totalItems |-> totalItems, totalPages |-> TotalPages(totalItems, limit),
     currentPage |-> page, limit |-> limit]

IsSearch(f) ==
    f.grupo # << >> \/ f.investigador # << >> \/ f.year # << >>
        \/ f.linea # << >> \/ f.tipo # << >>

QueryFails == {"count", "ids"} \cup DataFails

NoResp == [kind |-> "none"]
NoTx == [pc |-> "idle"]

\* Concurrent UpdateGrupoHandler requests the server is handling.
MaxReqs == 2

ReqIds == 1..MaxReqs

NoReq == [pc |-> "idle"]

TieBreaks == Permutations({l.id : l \in links})
NoTieBreak == [x \in {l.id : l \in links} |-> x]

GetGruposHandler(f, ps, ls, fail, tb) ==
    LET pg == GetPaginationParams(ps, ls)
        offset == WrapInt((pg.page - 1) * pg.limit)
    IN  /\ resp = NoResp
        /\ \E r \in {IF IsSearch(f)
                      THEN SearchGrupos(grupo, links, f, pg.limit, offset, fail, tb)
                      ELSE GetAllGruposWithDetails(grupo, links, pg.limit, offset, fail, tb)} :
              resp' = IF r.err
                      THEN [kind |-> "list", status |-> 500, storeFailed |-> (fail # "none"),
                            currentPage |-> pg.page, limit |-> pg.limit, filters |-> f]
                      ELSE [kind |-> "list", status |-> 200, storeFailed |-> FALSE,
                            data |-> r.items,
                            totalItems |-> r.totalItems,
                            totalPages |-> TotalPages(r.totalItems, pg.limit),
                            currentPage |-> pg.page, limit |-> pg.limit,
                            filters |-> f]
        /\ UNCHANGED <<pagVars, storeVars, driveVars, procs, tx>>

(***************************************************************************)
(* GetGruposByInvestigadorID (repository) and its handler                  *)
(* (GET /investigadores/{idInvestigador}/grupos): one row per link of the  *)
(* investigator, and for each a second query for the group's members.      *)
(***************************************************************************)
\* Path values {idInvestigador} of the lookup requests.
InvIdStrInputs == {<<"1">>, <<"2">>, <<"a">>}

ByInvFails == {"query", "scan", "iter", "innerQuery", "innerScan", "innerIter"}

\* SELECT ... FROM grupo g JOIN Grupo_Investigador dgi ... WHERE dgi.idInvestigador = $1
GruposOfInvestigador(G, L, idInvestigador, tb) ==
    LET S == {l \in L : l.idInvestigador = idInvestigador /\ l.idGrupo \in DOMAIN G}
    IN  SortBy(S, [p \in S \X S |-> tb[p[1].id] < tb[p[2].id]])

\* SELECT ... FROM investigador i JOIN Grupo_Investigador dgi ... WHERE dgi.idGrupo = $1
IntegrantesOfGrupo(L, idGrupo, tb) ==
    LET S == {l \in L : l.idGrupo = idGrupo /\ l.idInvestigador \in DOMAIN Investigadores}
    IN  SortBy(S, [p \in S \X S |-> tb[p[1].id] < tb[p[2].id]])

\* for rowsIntegrantes.Next() { ... }; rowsIntegrantes.Close(): the rows
\* delivered before the iteration stopped, rowsIntegrantes.Err() is not read
IntegrantesConRol(rows, delivered) ==
    [n \in 1..(IF delivered < Len(rows) THEN delivered ELSE Len(rows)) |->
        InvestigadorConRol(rows[n])]

\* for rows.Next() { ... } of GetGruposByInvestigadorID; the store failure
\* fail hits the j-th group row, after k rows of the failing result set
RECURSIVE ByInvLoop(_, _, _, _, _, _, _, _)
ByInvLoop(L, rows, i, acc, fail, j, k, tb) ==
    IF i > Len(rows) \/ (fail = "iter" /\ i > k)
    THEN IF fail = "iter" THEN [err |-> TRUE, failed |-> TRUE, items |-> << >>]
         ELSE [err |-> FALSE,
               failed |-> (fail = "innerIter" /\ j <= Len(rows)),
               items |-> acc]
    ELSE IF fail = "scan" /\ i = j THEN [err |-> TRUE, failed |-> TRUE, items |-> << >>]
    ELSE IF fail = "innerQuery" /\ i = j THEN [err |-> TRUE, failed |-> TRUE, items |-> << >>]
    ELSE LET inner == IntegrantesOfGrupo(L, rows[i].idGrupo, tb)
         IN  IF fail = "innerScan" /\ i = j /\ Len(inner) > 0
             THEN [err |-> TRUE, failed |-> TRUE, items |-> << >>]
             ELSE ByInvLoop(L, rows, i + 1,
                     Append(acc, [id |-> rows[i].idGrupo,
                                  integrantes |->
                                      IntegrantesConRol(inner,
                                          IF fail = "innerIter" /\ i = j THEN k
                                          ELSE Len(inner))]),
                     fail, j, k, tb)

GetGruposByInvestigadorID(G, L, idInvestigador, fail, j, k, tb) ==
    IF fail = "query" THEN [err |-> TRUE, failed |-> TRUE, items |-> << >>]
    ELSE ByInvLoop(L, GruposOfInvestigador(G, L, idInvestigador, tb), 1, << >>,
                   fail, j, k, tb)

GetGruposByInvestigadorHandler(idStr, fail, j, k, tb) ==
    /\ resp = NoResp
    /\ \E id \in {Atoi(idStr)} :
          IF ~id.ok
          THEN resp' = [kind |-> "byinv", status |-> 400, storeFailed |-> FALSE]
          ELSE \E r \in {GetGruposByInvestigadorID(grupo, links, id.val, fail, j, k, tb)} :
                  resp' = IF r.err
                          THEN [kind |-> "byinv", status |-> 500, storeFailed |-> TRUE]
                          ELSE [kind |-> "byinv", status |-> 200,
                                storeFailed |-> r.failed,
                                idInvestigador |-> id.val, data |-> r.items]
    /\ UNCHANGED <<pagVars, storeVars, driveVars, procs, tx>>

\* repository.CreateGrupo: INSERT INTO grupo ... RETURNING idGrupo
CreateGrupo ==
    /\ resp = NoResp
    /\ nextGrupoId <= MaxGrupos
    /\ grupo' = grupo @@ (nextGrupoId :> (PayloadFor(nextGrupoId) @@ [archivo |-> 0]))
    /\ nextGrupoId' = nextGrupoId + 1
    /\ resp' = [kind |-> "created", status |-> 201, id |-> nextGrupoId]
    /\ UNCHANGED <<pagVars, investigador, links, nextLinkId, driveVars, procs, tx>>

\* repository.CreateDetalleGrupoInvestigador: INSERT INTO Grupo_Investigador
CreateDetalleGrupoInvestigador(g, i, rol) ==
    /\ resp = NoResp
    /\ nextLinkId <= MaxLinks
    /\ g \in DOMAIN grupo
    /\ links' = links \cup {[id |-> nextLinkId, idGrupo |-> g, idInvestigador |-> i, rol |-> rol]}
    /\ nextLinkId' = nextLinkId + 1
    /\ resp' = [kind |-> "created", status |-> 201, id |-> nextLinkId]
    /\ UNCHANGED <<pagVars, investigador, grupo, nextGrupoId, driveVars, procs, tx>>

\* The response has been written to the client; the next request is served.
ResponseSent ==
    /\ resp # NoResp
    /\ resp' = NoResp
    /\ UNCHANGED <<pagVars, storeVars, driveVars, procs, tx>>

InitStore ==
    /\ grupo = EmptyMap
    /\ nextGrupoId = 1
    /\ links = {}
    /\ nextLinkId = 1
    /\ investigador = DOMAIN Investigadores

InitIdle ==
    /\ pageStr = << >> /\ limitStr = << >> /\ pgOut = NoResp
    /\ InitStore
    /\ resp = NoResp
    /\ drive = {} /\ nextFileId = 1
    /\ procs = [p \in ReqIds |-> NoReq]
    /\ tx = NoTx

InitAgg == InitIdle

\* POST /detalles
LinkInvestigador ==
    \E g \in DOMAIN grupo, i \in investigador, rol \in Roles :
        CreateDetalleGrupoInvestigador(g, i, rol)

\* GET /grupos, every store call succeeding
GetGrupos ==
    /\ resp = NoResp
    /\ \E f \in Filters, ps \in PageInputs, ls \in LimitInputs, tb \in TieBreaks :
          GetGruposHandler(f, ps, ls, "none", tb)

\* GET /grupos, one store call failing
GetGruposStoreError ==
    /\ resp = NoResp
    /\ \E f \in Filters, fail \in QueryFails :
          GetGruposHandler(f, << >>, << >>, fail, NoTieBreak)

\* GET /investigadores/{idInvestigador}/grupos, every store call succeeding
GetGruposByInvestigador ==
    /\ resp = NoResp
    /\ \E idStr \in InvIdStrInputs, tb \in TieBreaks :
          GetGruposByInvestigadorHandler(idStr, "none", 1, 0, tb)

\* GET /investigadores/{idInvestigador}/grupos, one store call failing
GetGruposByInvestigadorStoreError ==
    /\ resp = NoResp
    /\ \E idStr \in InvIdStrInputs, fail \in ByInvFails, j \in 1..MaxLinks,
          k \in 0..(MaxLinks - 1) :
          GetGruposByInvestigadorHandler(idStr, fail, j, k, NoTieBreak)

NextAgg ==
    \/ CreateGrupo
    \/ LinkInvestigador
    \/ GetGrupos
    \/ GetGruposStoreError
    \/ GetGruposByInvestigador
    \/ GetGruposByInvestigadorStoreError
    \/ ResponseSent

SpecAgg == InitAgg /\ [][NextAgg]_vars

(***************************************************************************)
(* Pagination resolver on raw query strings.                               *)
(***************************************************************************)
InitPag ==
    /\ pageStr \in RawStrings(MaxPageLen)
    /\ limitStr \in RawStrings(MaxLimitLen)
    /\ pgOut = NoResp
    /\ InitStore
    /\ resp = NoResp
    /\ drive = {} /\ nextFileId = 1
    /\ procs = [p \in ReqIds |-> NoReq]
    /\ tx = NoTx

\* page, limit := utils.GetPaginationParams(r)
ResolvePagination ==
    /\ pgOut = NoResp
    /\ pgOut' = [kind |-> "pg"] @@ GetPaginationParams(pageStr, limitStr)
    /\ UNCHANGED <<pageStr, limitStr, storeVars, resp, driveVars, procs, tx>>

NextPag == ResolvePagination

SpecPag == InitPag /\ [][NextPag]_vars

\* Reference reading of a decimal numeral: optional sign, one or more digits,
\* value by positional weights.
NumeralBody(s) == IF Len(s) > 0 /\ s[1] \in {"-", "+"} THEN Tail(s) ELSE s

IsNumeral(s) ==
    /\ Len(NumeralBody(s)) >= 1
    /\ \A i \in 1..Len(NumeralBody(s)) : IsDigit(NumeralBody(s)[i])

RECURSIVE Pow10(_)
Pow10(n) == IF n = 0 THEN 1 ELSE 10 * Pow10(n - 1)

RECURSIVE WeightedSum(_, _)
WeightedSum(b, i) ==
    IF i > Len(b) THEN 0
    ELSE DigitVal(b[i]) * Pow10(Len(b) - i) + WeightedSum(b, i + 1)

NumeralValue(s) ==
    IF s[1] = "-" THEN 0 - WeightedSum(NumeralBody(s), 1) ELSE WeightedSum(NumeralBody(s), 1)

RefPage(s) == IF IsNumeral(s) /\ NumeralValue(s) >= 1 THEN NumeralValue(s) ELSE 1

RefLimit(s) ==
    IF ~IsNumeral(s) THEN 6
    ELSE IF NumeralValue(s) < 1 THEN 6
    ELSE IF NumeralValue(s) > 100 THEN 100
    ELSE NumeralValue(s)

\* C1: for every pair of raw page/limit strings the resolver returns
\* page >= 1 and 1 <= limit <= 100.
C1_PaginationBounds ==
    pgOut.kind = "pg" => (pgOut.page >= 1 /\ pgOut.limit >= 1 /\ pgOut.limit <= 100)

C1_Witness ==
    /\ pgOut.kind = "pg"
    /\ pageStr = <<"-", "5">>
    /\ limitStr = <<"5", "0", "0">>
    /\ pgOut.limit = 100

\* C2: the resolver equals the reference resolver on every input: page is the
\* parsed value when it parses and is >= 1, otherwise 1; limit is the parsed
\* value in [1,100], 6 when it does not parse or is < 1, 100 when above 100.
C2_MatchesReference ==
    pgOut.kind = "pg" =>
        (pgOut.page = RefPage(pageStr) /\ pgOut.limit = RefLimit(limitStr))

C2_Witness ==
    /\ pgOut.kind = "pg"
    /\ pageStr = << >>
    /\ limitStr = <<"-", "5">>
    /\ pgOut.page = 1
    /\ pgOut.limit = 6

(***************************************************************************)
(* Properties of the aggregation responses.                                *)
(***************************************************************************)
ListOk == resp.kind = "list" /\ resp.status = 200

\* A group satisfies the active filters: every present group-level filter
\* matches its column and, when the investigator filter is present, some
\* investigator linked to the group matches it.
GroupSatisfies(g, f) ==
    /\ f.grupo = << >> \/ ILike(grupo[g].nombre, f.grupo)
    /\ f.year = << >> \/ (IsNumeral(f.year) /\ grupo[g].year = NumeralValue(f.year))
    /\ f.linea = << >> \/ ILike(grupo[g].linea, f.linea)
    /\ f.tipo = << >> \/ ILike(grupo[g].tipo, f.tipo)
    /\ f.investigador = << >>
          \/ \E l \in links : l.idGrupo = g /\ ILike(FullName(l.idInvestigador), f.investigador)

Qualifying(f) == {g \in DOMAIN grupo : GroupSatisfies(g, f)}

\* C3: totalItems equals the number of distinct groups that satisfy all
\* active filters, however many link rows each group has; for the unfiltered
\* listing it equals the number of groups.
C3_TotalItemsDistinct ==
    ListOk => /\ resp.totalItems = Cardinality(Qualifying(resp.filters))
              /\ ~IsSearch(resp.filters) => resp.totalItems = Cardinality(DOMAIN grupo)

C3_Witness ==
    /\ ListOk
    /\ resp.filters.investigador # << >>
    /\ resp.filters.grupo # << >>
    /\ resp.totalItems = 1
    /\ \E l1 \in links, l2 \in links :
          l1.id # l2.id /\ l1.idGrupo = l2.idGrupo
              /\ l1.idInvestigador = 1 /\ l2.idInvestigador = 1

\* C4: every group returned by the search carries all of its linked
\* investigators with their roles, including those that do not match the
\* investigator-name filter.
C4_AllInvestigatorsReturned ==
    (ListOk /\ IsSearch(resp.filters)) =>
        \A k \in 1..Len(resp.data) :
            /\ \A l \in links :
                  l.idGrupo = resp.data[k].id =>
                      \E n \in 1..Len(resp.data[k].investigadores) :
                          resp.data[k].investigadores[n] =
                              [id |-> l.idInvestigador, rol |-> l.rol]
            /\ \A n \in 1..Len(resp.data[k].investigadores) :
                  \E l \in links :
                      /\ l.idGrupo = resp.data[k].id
                      /\ resp.data[k].investigadores[n] =
                             [id |-> l.idInvestigador, rol |-> l.rol]

C4_Witness ==
    /\ ListOk
    /\ resp.filters.investigador # << >>
    /\ \E k \in 1..Len(resp.data) :
          /\ Len(resp.data[k].investigadores) = 2
          /\ \E n \in 1..2 : resp.data[k].investigadores[n].id = 1
          /\ \E n \in 1..2 : resp.data[k].investigadores[n].id = 2

\* The total order of the page: search by id, listing by name then id.
Before(h, g, f) ==
    IF IsSearch(f) THEN h < g
    ELSE \/ StrCmp(grupo[h].nombre, grupo[g].nombre, 1) < 0
         \/ StrCmp(grupo[h].nombre, grupo[g].nombre, 1) = 0 /\ h < g

Rank(g, f) == 1 + Cardinality({h \in Qualifying(f) : Before(h, g, f)})

Min(a, b) == IF a < b THEN a ELSE b

\* C5: page p holds exactly the qualifying groups at ranks
\* (p-1)*limit+1 .. min(p*limit, totalItems) of the total order, in that
\* order, each once.
C5_PageIsRankSlice ==
    ListOk =>
        LET first == (resp.currentPage - 1) * resp.limit + 1
            last == Min(resp.currentPage * resp.limit, resp.totalItems)
        IN  /\ Len(resp.data) = (IF last >= first THEN last - first + 1 ELSE 0)
            /\ \A k \in 1..Len(resp.data) :
                  /\ resp.data[k].id \in Qualifying(resp.filters)
                  /\ Rank(resp.data[k].id, resp.filters) = first + k - 1

C5_Witness ==
    /\ ListOk
    /\ ~IsSearch(resp.filters)
    /\ Cardinality(DOMAIN grupo) = 3
    /\ resp.currentPage = 1 /\ resp.limit = 2
    /\ Len(resp.data) = 2
    /\ resp.data[1].id = 2 /\ resp.data[2].id = 1
    /\ resp.totalItems = 3 /\ resp.totalPages = 2

\* C6: in every aggregated result a group's investigator list contains each
\* linked investigator exactly once, even when the link table holds several
\* rows for the same (group, investigator) pair.
C6_InvestigatorsOnce ==
    ListOk =>
        \A k \in 1..Len(resp.data) :
            LET invs == resp.data[k].investigadores
                linked == {l.idInvestigador : l \in {x \in links : x.idGrupo = resp.data[k].id}}
            IN  /\ Len(invs) = Cardinality(linked)
                /\ \A m \in 1..Len(invs), n \in 1..Len(invs) :
                      invs[m].id = invs[n].id => m = n

(***************************************************************************)
(* CreateGrupoWithDetailsHandler (POST /grupos/with-details): one          *)
(* transaction holding the group insert and one insert per relationship;   *)
(* the deferred function commits or rolls back.  Statements of the         *)
(* transaction are invisible to the store until the commit.                *)
(***************************************************************************)
MaxRels == 2

\* idInvestigador values a request may carry; 9 names no investigator.
InvIdInputs == {1, 2, 9}

RelInputs == [idInvestigador : InvIdInputs, tipoRelacion : Roles]

DetailsRequests == UNION {[1..n -> RelInputs] : n \in 0..MaxRels}

StmtOutcomes == {"ok", "error"}

TxDone(status, outcome, failedAt, t) ==
    [t EXCEPT !.pc = "done", !.status = status, !.outcome = outcome, !.failedAt = failedAt]

\* json decode, db.Begin()
CWD_Begin(req, decodeOk, beginOk) ==
    /\ tx.pc = "idle"
    /\ nextGrupoId <= MaxGrupos
    /\ nextLinkId + Len(req) - 1 <= MaxLinks
    /\ LET t0 == [pc |-> "grupo", req |-> req, grupoID |-> 0, k |-> 0, err |-> FALSE,
                  status |-> 0, body |-> [id |-> 0], pendGrupo |-> << >>, pendLinks |-> {},
                  outcome |-> "none", failedAt |-> "none",
                  panicked |-> FALSE, propagated |-> FALSE]
       IN  tx' = IF ~decodeOk THEN TxDone(400, "none", "decode", t0)
                 ELSE IF ~beginOk THEN TxDone(500, "none", "begin", t0)
                 ELSE t0
    /\ UNCHANGED <<pagVars, storeVars, resp, driveVars, procs>>

\* err = tx.QueryRow(groupInsertQuery, ...).Scan(&grupoID)
CWD_InsertGrupo(outcome) ==
    /\ tx.pc = "grupo"
    /\ IF outcome = "ok"
       THEN /\ tx' = [tx EXCEPT !.pc = "details", !.grupoID = nextGrupoId,
                                !.pendGrupo = <<PayloadFor(nextGrupoId) @@ [archivo |-> 0]>>]
            /\ nextGrupoId' = nextGrupoId + 1
       ELSE /\ tx' = [tx EXCEPT !.pc = "defer", !.err = TRUE, !.status = 500,
                                !.failedAt = "grupo"]
            /\ UNCHANGED nextGrupoId
    /\ UNCHANGED <<pagVars, investigador, grupo, links, nextLinkId, resp, driveVars, procs>>

DetailRowFixedRole(linkId, grupoID, invRel) ==
    [id |-> linkId, idGrupo |-> grupoID, idInvestigador |-> invRel.idInvestigador,
     rol |-> "Integrante"]

\* VALUES ($1, $2, $3) bound to grupoID, invRel.IDInvestigador, invRel.TipoRelacion
DetailRow(linkId, grupoID, invRel) ==
    [id |-> linkId, idGrupo |-> grupoID, idInvestigador |-> invRel.idInvestigador,
     rol |-> invRel.tipoRelacion]

\* _, err = tx.Exec(detailInsertQuery, grupoID, invRel.IDInvestigador, invRel.TipoRelacion)
\* The foreign key rejects an unknown investigator; any statement may also
\* fail in the store.
CWD_InsertDetail(outcome) ==
    /\ tx.pc = "details"
    /\ tx.k < Len(tx.req)
    /\ LET invRel == tx.req[tx.k + 1]
       IN  IF outcome = "ok" /\ invRel.idInvestigador \in investigador
           THEN /\ tx' = [tx EXCEPT !.k = @ + 1,
                              !.pendLinks = @ \cup {DetailRow(nextLinkId, tx.grupoID, invRel)}]
                /\ nextLinkId' = nextLinkId + 1
           ELSE /\ tx' = [tx EXCEPT !.pc = "defer", !.err = TRUE, !.status = 500,
                                    !.failedAt = "detail"]
                /\ UNCHANGED nextLinkId
    /\ UNCHANGED <<pagVars, investigador, grupo, nextGrupoId, links, resp, driveVars, procs>>

\* w.WriteHeader(http.StatusCreated); json.NewEncoder(w).Encode(grupoToCreate)
CWD_Respond ==
    /\ tx.pc = "details"
    /\ tx.k = Len(tx.req)
    /\ tx' = [tx EXCEPT !.pc = "defer", !.status = 201, !.body = [id |-> tx.grupoID]]
    /\ UNCHANGED <<pagVars, storeVars, resp, driveVars, procs>>

\* A panic raised by the handler's body while the transaction is open: in a
\* statement, or, with afterHeader, while the body is encoded after
\* WriteHeader(201).  The deferred function runs next.
CWD_Panic(afterHeader) ==
    /\ tx.pc \in {"grupo", "details"}
    /\ afterHeader => (tx.pc = "details" /\ tx.k = Len(tx.req))
    /\ tx' = [tx EXCEPT !.pc = "defer", !.panicked = TRUE, !.failedAt = "panic",
                        !.status = IF afterHeader THEN 201 ELSE 0]
    /\ UNCHANGED <<pagVars, storeVars, resp, driveVars, procs>>

DeferredActionCommitAlways(err, panicked, commitOk) ==
    IF commitOk THEN "committed" ELSE "commitfailed"

DeferredActionNoRecover(err, panicked, commitOk) ==
    IF err THEN "rolledback"
    ELSE IF commitOk THEN "committed" ELSE "commitfailed"

\* defer func() { if p := recover(); p != nil { tx.Rollback(); panic(p) }
\*   else if err != nil { tx.Rollback() } else { err = tx.Commit() } }()
DeferredAction(err, panicked, commitOk) ==
    IF panicked THEN "rolledback"
    ELSE IF err THEN "rolledback"
    ELSE IF commitOk THEN "committed" ELSE "commitfailed"

\* The deferred function; after its rollback a recovered panic is raised
\* again (propagated) and leaves the handler.
CWD_Deferred(commitOk) ==
    /\ tx.pc = "defer"
    /\ LET act == DeferredAction(tx.err, tx.panicked, commitOk)
       IN  /\ tx' = [tx EXCEPT !.pc = "done", !.outcome = act,
                              !.err = (tx.err \/ act = "commitfailed"),
                              !.propagated = tx.panicked]
           /\ IF act = "committed"
              THEN /\ grupo' = IF Len(tx.pendGrupo) = 1
                               THEN grupo @@ (tx.grupoID :> tx.pendGrupo[1]) ELSE grupo
                   /\ links' = links \cup tx.pendLinks
              ELSE UNCHANGED <<grupo, links>>
    /\ UNCHANGED <<pagVars, investigador, nextGrupoId, nextLinkId, resp, driveVars, procs>>

\* The handler has returned.
CWD_Return ==
    /\ tx.pc = "done"
    /\ tx' = NoTx
    /\ UNCHANGED <<pagVars, storeVars, resp, driveVars, procs>>

CreateWithDetailsArrives ==
    \E req \in DetailsRequests, decodeOk \in BOOLEAN, beginOk \in BOOLEAN :
        CWD_Begin(req, decodeOk, beginOk)

InsertGrupoStep == \E o \in StmtOutcomes : CWD_InsertGrupo(o)

InsertDetailStep == \E o \in StmtOutcomes : CWD_InsertDetail(o)

PanicStep == \E afterHeader \in BOOLEAN : CWD_Panic(afterHeader)

DeferredStep == \E commitOk \in BOOLEAN : CWD_Deferred(commitOk)

InitTx == InitIdle

NextTx ==
    \/ CreateWithDetailsArrives
    \/ InsertGrupoStep
    \/ InsertDetailStep
    \/ CWD_Respond
    \/ PanicStep
    \/ DeferredStep
    \/ CWD_Return
    \/ CreateGrupo
    \/ ResponseSent

SpecTx == InitTx /\ [][NextTx]_vars

(***************************************************************************)
(* UpdateGrupoHandler (PUT /grupos/{id}): read the row, store the uploaded *)
(* attachment, write the row, remove the replaced attachment.  Each call   *)
(* to the store or to the attachment service is one step, so concurrent    *)
(* requests interleave between the calls.                                  *)
(***************************************************************************)
MaxFiles == 2

\* Path values {id} of the update requests; 3 names no group.
UpdIdInputs == {1, 3}

NoFields ==
    [nombre |-> << >>, numeroResolucion |-> << >>, linea |-> << >>, tipo |-> << >>,
     fecha |-> << >>]

\* Form values of the update requests (<<>> = field left empty).
UpdateForms ==
    {NoFields,
     [NoFields EXCEPT !.nombre = <<"z">>],
     [nombre |-> <<"z">>, numeroResolucion |-> <<"q">>, linea |-> <<"w">>, tipo |-> <<"v">>,
      fecha |-> <<"2", "0", "2", "5", "-", "0", "3", "-", "0", "4">>],
     [NoFields EXCEPT !.fecha = <<"2", "0", "2", "5", "-", "1", "3", "-", "0", "1">>]}

DaysIn(month, year) ==
    IF month \in {4, 6, 9, 11} THEN 30
    ELSE IF month # 2 THEN 31
    ELSE IF (year % 4 = 0 /\ year % 100 # 0) \/ year % 400 = 0 THEN 29 ELSE 28

\* time.Parse("2006-01-02", s)
ParseFecha(s) ==
    IF /\ Len(s) = 10
       /\ s[5] = "-" /\ s[8] = "-"
       /\ \A i \in {1, 2, 3, 4, 6, 7, 9, 10} : IsDigit(s[i])
    THEN LET year == AtoiDigits(SubSeq(s, 1, 4), 1, 0).val
             month == AtoiDigits(SubSeq(s, 6, 7), 1, 0).val
             day == AtoiDigits(SubSeq(s, 9, 10), 1, 0).val
         IN  IF month \in 1..12 /\ day >= 1 /\ day <= DaysIn(month, year)
             THEN [ok |-> TRUE, year |-> year, month |-> month, day |-> day]
             ELSE [ok |-> FALSE, year |-> 0, month |-> 0, day |-> 0]
    ELSE [ok |-> FALSE, year |-> 0, month |-> 0, day |-> 0]

\* repository.GetGrupoByID: found is FALSE for sql.ErrNoRows
GetGrupoByID(G, id, outcome) ==
    IF outcome = "error" THEN [err |-> TRUE, found |-> FALSE, row |-> << >>]
    ELSE IF id \notin DOMAIN G THEN [err |-> FALSE, found |-> FALSE, row |-> << >>]
    ELSE [err |-> FALSE, found |-> TRUE, row |-> <<G[id]>>]

UpdateGrupoAppliedOnError(G, id, g, outcome) ==
    IF id \in DOMAIN G THEN [G EXCEPT ![id] = g] ELSE G

\* repository.UpdateGrupo: UPDATE grupo SET ... WHERE idGrupo = $7
UpdateGrupo(G, id, g, outcome) ==
    IF outcome = "ok" /\ id \in DOMAIN G THEN [G EXCEPT ![id] = g] ELSE G

\* removeFile: nil is skipped, a file that is already gone counts as removed
RemoveFile(D, fileID, outcome) ==
    IF fileID = 0 THEN D
    ELSE IF outcome = "ok" THEN D \ {fileID}
    ELSE D

FormOr(formValue, existingValue) ==
    IF formValue = << >> THEN existingValue ELSE formValue

\* 3. and 4. of the handler: the row to write
UpdatedGrupo(existing, form, oldFileID, newFileID) ==
    [nombre |-> FormOr(form.nombre, existing.nombre),
     numeroResolucion |-> FormOr(form.numeroResolucion, existing.numeroResolucion),
     linea |-> FormOr(form.linea, existing.linea),
     tipo |-> FormOr(form.tipo, existing.tipo),
     year |-> IF form.fecha = << >> THEN existing.year ELSE ParseFecha(form.fecha).year,
     archivo |-> IF newFileID # 0 THEN newFileID ELSE oldFileID]

FileIDToDeleteAlways(oldFileID, newFileID) == oldFileID

\* 4. of the handler: the attachment to remove once the row is written
FileIDToDelete(oldFileID, newFileID) ==
    IF newFileID # 0 /\ oldFileID # 0 /\ oldFileID # newFileID THEN oldFileID ELSE 0

ReqDone(r, status, failedAt) ==
    [r EXCEPT !.pc = "done", !.status = status, !.failedAt = failedAt]

\* Uploads of requests that were accepted and have not yet reached the service.
PendingUploads ==
    Cardinality({p \in ReqIds : procs[p].pc = "upload" /\ procs[p].hasFile})

\* strconv.Atoi(idStr), repository.GetGrupoByID
UG_GetGrupoByID(p, id, form, hasFile, outcome) ==
    /\ procs[p].pc = "idle"
    /\ hasFile => nextFileId + PendingUploads <= MaxFiles
    /\ LET r0 == [kind |-> "update", pc |-> "upload", id |-> id, form |-> form, hasFile |-> hasFile,
                  existing |-> << >>, oldFileID |-> 0, newFileID |-> 0,
                  removeCalls |-> {}, status |-> 0, failedAt |-> "none"]
           got == GetGrupoByID(grupo, id, outcome)
       IN  procs' = [procs EXCEPT ![p] =
                        IF got.err THEN ReqDone(r0, 500, "get")
                        ELSE IF ~got.found THEN ReqDone(r0, 404, "notfound")
                        ELSE [r0 EXCEPT !.existing = got.row,
                                        !.oldFileID = got.row[1].archivo]]
    /\ UNCHANGED <<pagVars, storeVars, resp, driveVars, tx>>

\* newFileID, err := saveUploadedFile(r, "archivo")
UG_SaveUploadedFile(p, outcome) ==
    /\ procs[p].pc = "upload"
    /\ outcome \in {"ok", "parse", "drive"}
    /\ outcome = "drive" => procs[p].hasFile
    /\ IF outcome = "ok" /\ procs[p].hasFile
       THEN /\ drive' = drive \cup {nextFileId}
            /\ nextFileId' = nextFileId + 1
            /\ procs' = [procs EXCEPT ![p].pc = "update", ![p].newFileID = nextFileId]
       ELSE /\ UNCHANGED driveVars
            /\ procs' = [procs EXCEPT ![p] =
                            IF outcome = "ok" THEN [@ EXCEPT !.pc = "update"]
                            ELSE IF outcome = "parse" THEN ReqDone(@, 400, "upload")
                            ELSE ReqDone(@, 500, "upload")]
    /\ UNCHANGED <<pagVars, storeVars, resp, tx>>

FechaRejected(form) == form.fecha # << >> /\ ~ParseFecha(form.fecha).ok

\* fechaRegistro does not parse: _ = removeFile(newFileID), 400
UG_RejectFecha(p, rmOutcome) ==
    /\ procs[p].pc = "update"
    /\ FechaRejected(procs[p].form)
    /\ drive' = RemoveFile(drive, procs[p].newFileID, rmOutcome)
    /\ procs' = [procs EXCEPT ![p] =
                    ReqDone([@ EXCEPT !.removeCalls = @ \cup ({procs[p].newFileID} \ {0})],
                            400, "fecha")]
    /\ UNCHANGED <<pagVars, storeVars, resp, nextFileId, tx>>

\* 5. repository.UpdateGrupo(db, &updatedGrupo)
UG_UpdateGrupo(p, outcome) ==
    /\ procs[p].pc = "update"
    /\ ~FechaRejected(procs[p].form)
    /\ LET r == procs[p]
           g == UpdatedGrupo(r.existing[1], r.form, r.oldFileID, r.newFileID)
       IN  /\ grupo' = UpdateGrupo(grupo, r.id, g, outcome)
           /\ procs' = [procs EXCEPT ![p] =
                  IF outcome # "ok"
                  THEN IF r.newFileID # 0 THEN [r EXCEPT !.pc = "rmnew", !.failedAt = "update"]
                       ELSE ReqDone(r, 500, "update")
                  ELSE IF FileIDToDelete(r.oldFileID, r.newFileID) # 0
                       THEN [r EXCEPT !.pc = "rmold"]
                       ELSE ReqDone(r, 200, "none")]
    /\ UNCHANGED <<pagVars, investigador, nextGrupoId, links, nextLinkId, resp, driveVars, tx>>

\* the update failed: _ = removeFile(newFileID), 500
UG_RemoveNew(p, rmOutcome) ==
    /\ procs[p].pc = "rmnew"
    /\ drive' = RemoveFile(drive, procs[p].newFileID, rmOutcome)
    /\ procs' = [procs EXCEPT ![p] =
                    ReqDone([@ EXCEPT !.removeCalls = @ \cup {procs[p].newFileID}],
                            500, "update")]
    /\ UNCHANGED <<pagVars, storeVars, resp, nextFileId, tx>>

\* err := removeFile(...) after the database write; if err != nil { log.Printf(...) }
StatusAfterRemoveFileFatal(status, rmOutcome) ==
    IF rmOutcome = "ok" THEN status ELSE 500

StatusAfterRemoveFile(status, rmOutcome) == status

\* 6. the update succeeded: removeFile(fileIDToDelete), failure only logged; 200
UG_RemoveOld(p, rmOutcome) ==
    /\ procs[p].pc = "rmold"
    /\ LET f == FileIDToDelete(procs[p].oldFileID, procs[p].newFileID)
       IN  /\ drive' = RemoveFile(drive, f, rmOutcome)
           /\ procs' = [procs EXCEPT ![p] =
                           ReqDone([@ EXCEPT !.removeCalls = @ \cup {f}],
                                   StatusAfterRemoveFile(200, rmOutcome), "none")]
    /\ UNCHANGED <<pagVars, storeVars, resp, nextFileId, tx>>

\* The handler has returned.
UG_Return(p) ==
    /\ procs[p].pc = "done"
    /\ procs' = [procs EXCEPT ![p] = NoReq]
    /\ UNCHANGED <<pagVars, storeVars, resp, driveVars, tx>>

UpdateArrives ==
    \E p \in ReqIds, id \in UpdIdInputs, form \in UpdateForms, hasFile \in BOOLEAN,
       outcome \in StmtOutcomes :
        UG_GetGrupoByID(p, id, form, hasFile, outcome)

SaveUploadedFileStep ==
    \E p \in ReqIds, outcome \in {"ok", "parse", "drive"} : UG_SaveUploadedFile(p, outcome)

RejectFechaStep == \E p \in ReqIds, o \in StmtOutcomes : UG_RejectFecha(p, o)

UpdateGrupoStep == \E p \in ReqIds, o \in StmtOutcomes : UG_UpdateGrupo(p, o)

RemoveNewStep == \E p \in ReqIds, o \in StmtOutcomes : UG_RemoveNew(p, o)

RemoveOldStep == \E p \in ReqIds, o \in StmtOutcomes : UG_RemoveOld(p, o)

ReturnStep == \E p \in ReqIds : UG_Return(p)

\* Two groups, created without attachment, and one link of the first are in
\* the store when the update requests arrive.
InitUpd ==
    /\ pageStr = << >> /\ limitStr = << >> /\ pgOut = NoResp
    /\ grupo = [g \in {1, 2} |-> PayloadFor(g) @@ [archivo |-> 0]]
    /\ nextGrupoId = 3
    /\ links = {[id |-> 1, idGrupo |-> 1, idInvestigador |-> 1, rol |-> "Coordinador"]}
    /\ nextLinkId = 2
    /\ investigador = DOMAIN Investigadores
    /\ resp = NoResp
    /\ drive = {} /\ nextFileId = 1
    /\ procs = [p \in ReqIds |-> NoReq]
    /\ tx = NoTx

NextUpd ==
    \/ UpdateArrives
    \/ SaveUploadedFileStep
    \/ RejectFechaStep
    \/ UpdateGrupoStep
    \/ RemoveNewStep
    \/ RemoveOldStep
    \/ ReturnStep

SpecUpd == InitUpd /\ [][NextUpd]_vars

\* C7: when the group insert or a relationship insert of a composite create
\* fails, the transaction is rolled back, the store afterwards holds no group
\* row and no link row of this request, and the caller gets an error response.
C7_FailureLeavesNothing ==
    (tx.pc = "done" /\ tx.failedAt \in {"grupo", "detail"}) =>
        /\ tx.outcome = "rolledback"
        /\ tx.status = 500
        /\ tx.grupoID \notin DOMAIN grupo
        /\ \A l \in links : l.idGrupo # tx.grupoID /\ l \notin tx.pendLinks

C7_Witness ==
    /\ tx.pc = "done"
    /\ tx.failedAt = "detail"
    /\ Len(tx.req) = 2
    /\ tx.k = 1
    /\ tx.grupoID # 0
    /\ Cardinality(tx.pendLinks) = 1
    /\ tx.outcome = "rolledback"

ReqCount(req, p) == Cardinality({i \in 1..Len(req) : req[i] = p})

\* What the store and the response look like once a composite create whose
\* inserts all succeeded has run its deferred function.
C8_Post ==
    LET newLinks == links' \ links
    IN  /\ tx.grupoID \notin DOMAIN grupo
        /\ DOMAIN grupo' = DOMAIN grupo \cup {tx.grupoID}
        /\ \A g \in DOMAIN grupo : grupo'[g] = grupo[g]
        /\ grupo'[tx.grupoID] = tx.pendGrupo[1]
        /\ links \subseteq links'
        /\ Cardinality(newLinks) = Len(tx.req)
        /\ \A l \in newLinks : l.idGrupo = tx.grupoID
        /\ \A p \in RelInputs :
              Cardinality({l \in newLinks : /\ l.idInvestigador = p.idInvestigador
                                            /\ l.rol = p.tipoRelacion})
                  = ReqCount(tx.req, p)
        /\ tx'.status = 201
        /\ tx'.body = [id |-> tx.grupoID]

C9_NoDanglingReference ==
    (\A p \in ReqIds : procs[p].pc \in {"idle", "done"}) =>
        \A g \in DOMAIN grupo : grupo[g].archivo = 0 \/ grupo[g].archivo \in drive

\* C10: when UpdateGrupo fails after a new attachment was stored, the request
\* leaves the stored row as it was, calls removeFile on the new attachment
\* and on nothing else, so the old attachment is not removed, and answers
\* with an error.
C10_FailedUpdateKeepsOld ==
    [][\A p \in ReqIds :
          /\ (procs[p].pc = "update" /\ procs[p].newFileID # 0 /\ procs'[p].pc = "rmnew")
                => (grupo' = grupo /\ drive' = drive)
          /\ (procs[p].pc = "rmnew" /\ procs'[p].pc = "done")
                => /\ grupo' = grupo
                   /\ (drive \ drive') \subseteq {procs[p].newFileID}
                   /\ procs'[p].removeCalls = {procs[p].newFileID}
                   /\ procs[p].oldFileID \notin procs'[p].removeCalls
                   /\ procs'[p].failedAt = "update"
                   /\ procs'[p].status = 500]_vars

C10_Witness ==
    \E p \in ReqIds :
        /\ procs[p].pc = "done"
        /\ procs[p].failedAt = "update"
        /\ procs[p].status = 500
        /\ procs[p].newFileID # 0
        /\ procs[p].oldFileID # 0
        /\ grupo[procs[p].id].archivo = procs[p].oldFileID
        /\ procs[p].oldFileID \in drive
        /\ procs[p].newFileID \notin drive

(***************************************************************************)
(* CreateGrupoHandler (POST /grupos): store the uploaded attachment, then  *)
(* validate the form, then insert the row.                                 *)
(***************************************************************************)
ValidCreateForm ==
    [nombre |-> <<"a", "B">>, numeroResolucion |-> <<"r">>, linea |-> <<"x">>,
     tipo |-> <<"t">>,
     fecha |-> <<"2", "0", "2", "4", "-", "0", "5", "-", "0", "6">>]

\* Form values of the create requests: complete, a required text field
\* missing, fechaRegistro missing, not parsing, and the zero date.
CreateForms ==
    {ValidCreateForm,
     [ValidCreateForm EXCEPT !.nombre = << >>],
     [ValidCreateForm EXCEPT !.fecha = << >>],
     [ValidCreateForm EXCEPT !.fecha = <<"2", "0", "2", "5", "-", "1", "3", "-", "0", "1">>],
     [ValidCreateForm EXCEPT !.fecha = <<"0", "0", "0", "1", "-", "0", "1", "-", "0", "1">>]}

\* time.Time.IsZero of the parsed fechaRegistro (the zero value when the
\* field was empty)
FechaIsZero(form) ==
    \/ form.fecha = << >>
    \/ LET d == ParseFecha(form.fecha)
       IN  d.ok /\ d.year = 1 /\ d.month = 1 /\ d.day = 1

\* The three checks of the handler that answer 400.
CreateFormRejected(form) ==
    \/ FechaRejected(form)
    \/ form.nombre = << >> \/ form.numeroResolucion = << >>
    \/ form.linea = << >> \/ form.tipo = << >>
    \/ FechaIsZero(form)

CreatedGrupo(form, fileID) ==
    [nombre |-> form.nombre, numeroResolucion |-> form.numeroResolucion,
     linea |-> form.linea, tipo |-> form.tipo, year |-> ParseFecha(form.fecha).year,
     archivo |-> fileID]

\* Create requests that were accepted and have not yet inserted their row.
PendingCreates == Cardinality({p \in ReqIds : procs[p].pc \in {"cg_insert"}})

\* fileID, err := saveUploadedFile(r, "archivo")
CG_SaveUploadedFile(p, form, hasFile, outcome) ==
    /\ procs[p].pc = "idle"
    /\ nextGrupoId + PendingCreates <= MaxGrupos
    /\ hasFile => nextFileId + PendingUploads <= MaxFiles
    /\ outcome \in {"ok", "parse", "drive"}
    /\ outcome = "drive" => hasFile
    /\ LET r0 == [kind |-> "create", pc |-> "cg_insert", id |-> 0, form |-> form,
                  hasFile |-> hasFile, newFileID |-> 0, removeCalls |-> {},
                  status |-> 0, failedAt |-> "none"]
       IN  IF outcome = "ok" /\ hasFile
           THEN /\ drive' = drive \cup {nextFileId}
                /\ nextFileId' = nextFileId + 1
                /\ procs' = [procs EXCEPT ![p] = [r0 EXCEPT !.newFileID = nextFileId]]
           ELSE /\ UNCHANGED driveVars
                /\ procs' = [procs EXCEPT ![p] =
                                IF outcome = "ok" THEN r0
                                ELSE IF outcome = "parse" THEN ReqDone(r0, 400, "upload")
                                ELSE ReqDone(r0, 500, "upload")]
    /\ UNCHANGED <<pagVars, storeVars, resp, tx>>

\* a validation check fails: _ = removeFile(fileID), 400
CG_RejectForm(p, rmOutcome) ==
    /\ procs[p].pc = "cg_insert"
    /\ CreateFormRejected(procs[p].form)
    /\ drive' = RemoveFile(drive, procs[p].newFileID, rmOutcome)
    /\ procs' = [procs EXCEPT ![p] =
                    ReqDone([@ EXCEPT !.removeCalls = @ \cup ({procs[p].newFileID} \ {0})],
                            400, "validation")]
    /\ UNCHANGED <<pagVars, storeVars, resp, nextFileId, tx>>

\* repository.CreateGrupo(db, &g); 201 with the row
CG_CreateGrupo(p, outcome) ==
    /\ procs[p].pc = "cg_insert"
    /\ ~CreateFormRejected(procs[p].form)
    /\ LET r == procs[p]
       IN  IF outcome = "ok"
           THEN /\ grupo' = grupo @@ (nextGrupoId :> CreatedGrupo(r.form, r.newFileID))
                /\ nextGrupoId' = nextGrupoId + 1
                /\ procs' = [procs EXCEPT ![p] = ReqDone([r EXCEPT !.id = nextGrupoId], 201, "none")]
           ELSE /\ UNCHANGED <<grupo, nextGrupoId>>
                /\ procs' = [procs EXCEPT ![p] =
                                IF r.newFileID # 0
                                THEN [r EXCEPT !.pc = "cg_rmnew", !.failedAt = "insert"]
                                ELSE ReqDone(r, 500, "insert")]
    /\ UNCHANGED <<pagVars, investigador, links, nextLinkId, resp, driveVars, tx>>

\* the insert failed: _ = removeFile(fileID), 500
CG_RemoveNew(p, rmOutcome) ==
    /\ procs[p].pc = "cg_rmnew"
    /\ drive' = RemoveFile(drive, procs[p].newFileID, rmOutcome)
    /\ procs' = [procs EXCEPT ![p] =
                    ReqDone([@ EXCEPT !.removeCalls = @ \cup {procs[p].newFileID}],
                            500, "insert")]
    /\ UNCHANGED <<pagVars, storeVars, resp, nextFileId, tx>>

CreateArrives ==
    \E p \in ReqIds, form \in CreateForms, hasFile \in BOOLEAN,
       outcome \in {"ok", "parse", "drive"} :
        CG_SaveUploadedFile(p, form, hasFile, outcome)

RejectFormStep == \E p \in ReqIds, o \in StmtOutcomes : CG_RejectForm(p, o)

CreateGrupoStep == \E p \in ReqIds, o \in StmtOutcomes : CG_CreateGrupo(p, o)

CreateRemoveNewStep == \E p \in ReqIds, o \in StmtOutcomes : CG_RemoveNew(p, o)

InitCD == InitIdle

NextCD ==
    \/ CreateArrives
    \/ RejectFormStep
    \/ CreateGrupoStep
    \/ CreateRemoveNewStep
    \/ ReturnStep

SpecCD == InitCD /\ [][NextCD]_vars

\* C11: a create or update request answered with a validation error (400)
\* changes no group row and no link row, and no attachment it uploaded remains
\* stored, whatever the attachment service answers.
C11_RejectedLeavesNothing ==
    [][\A p \in ReqIds :
          (procs[p].pc \notin {"idle", "done"} /\ procs'[p].pc = "done"
              /\ procs'[p].status = 400)
            => /\ grupo' = grupo /\ links' = links
               /\ procs'[p].newFileID \notin drive']_vars

\* C12: a store failure during an aggregation is answered with an internal
\* error and no data, and a successful answer is never partial: a by-
\* investigator answer lists every link of the investigator and, like a
\* listing or search answer, for each group every link of that group.
C12_NoPartialResult ==
    /\ (resp.kind \in {"list", "byinv"} /\ resp.storeFailed)
          => (resp.status = 500 /\ "data" \notin DOMAIN resp)
    /\ (resp.kind = "byinv" /\ resp.status = 200) =>
          /\ Len(resp.data) =
                Cardinality({l \in links : l.idInvestigador = resp.idInvestigador})
          /\ \A n \in 1..Len(resp.data) :
                Len(resp.data[n].integrantes) =
                    Cardinality({l \in links : l.idGrupo = resp.data[n].id})
    /\ (resp.kind = "list" /\ resp.status = 200) =>
          \A n \in 1..Len(resp.data) :
              {resp.data[n].investigadores[m].id :
                    m \in 1..Len(resp.data[n].investigadores)}
                  = {l.idInvestigador : l \in {x \in links : x.idGrupo = resp.data[n].id}}

\* C13: a request for a page beyond the qualifying set, with no store call
\* failing, is answered 200 with an empty data list and the true totalItems
\* and totalPages.
C13_PageBeyondDataIsEmpty ==
    (/\ resp.kind = "list" /\ ~resp.storeFailed
     /\ (resp.currentPage - 1) * resp.limit >= Cardinality(Qualifying(resp.filters)))
      => /\ resp.status = 200
         /\ resp.data = << >>
         /\ resp.totalItems = Cardinality(Qualifying(resp.filters))
         /\ resp.totalPages * resp.limit >= resp.totalItems
         /\ (resp.totalPages - 1) * resp.limit < resp.totalItems \/ resp.totalItems = 0

(***************************************************************************)
(* The pagination metadata of the paginated handlers (GetGruposHandler,    *)
(* GetAllGruposWithDetailsHandler, GetInvestigadoresHandler) as a function *)
(* of the count the repository returned and of the resolved parameters.    *)
(***************************************************************************)
\* Counts returned by the store: small ones and those around 2^MantBits.
TotalItemsInputs == (0..12) \cup ((2^MantBits - 2)..(2^MantBits + 12))

MetaLimitInputs == {<< >>, <<"0">>, <<"1">>, <<"2">>, <<"3">>, <<"7">>,
                    <<"1", "0", "0">>, <<"5", "0", "0">>}

PaginatedResponse ==
    /\ resp = NoResp
    /\ \E totalItems \in TotalItemsInputs :
          \E pg \in {GetPaginationParams(pageStr, limitStr)} :
             resp' = [kind |-> "meta",
                      pagination |-> PaginationMetadata(totalItems, pg.page, pg.limit)]
    /\ UNCHANGED <<pagVars, storeVars, driveVars, procs, tx>>

InitMeta ==
    /\ pageStr \in PageInputs
    /\ limitStr \in MetaLimitInputs
    /\ pgOut = NoResp
    /\ InitStore
    /\ resp = NoResp
    /\ drive = {} /\ nextFileId = 1
    /\ procs = [p \in ReqIds |-> NoReq]
    /\ tx = NoTx

NextMeta == PaginatedResponse

SpecMeta == InitMeta /\ [][NextMeta]_vars

Unlinked == {g \in DOMAIN grupo : ~\E l \in links : l.idGrupo = g}

\* C15: in a listing or a search without investigator filter, a group with no
\* linked investigator that satisfies the filters is on the page its rank
\* falls on, occurs at most once in the data, and carries an empty
\* investigator list.
C15_UnlinkedGroupListed ==
    (ListOk /\ resp.filters.investigador = << >>) =>
        \A g \in Unlinked \cap Qualifying(resp.filters) :
            LET occ == {k \in 1..Len(resp.data) : resp.data[k].id = g}
                first == (resp.currentPage - 1) * resp.limit + 1
            IN  /\ Cardinality(occ) <= 1
                /\ \A k \in occ : resp.data[k].investigadores = << >>
                /\ Rank(g, resp.filters) \in first..(first + resp.limit - 1)
                      => occ # {}

C15_Witness ==
    /\ ListOk
    /\ IsSearch(resp.filters) /\ resp.filters.investigador = << >>
    /\ \E k, m \in 1..Len(resp.data) :
          /\ resp.data[k].id \in Unlinked
          /\ resp.data[k].investigadores = << >>
          /\ resp.data[m].investigadores # << >>

(***************************************************************************)
(* Deletes and lookups by id: DeleteGrupoHandler (Drive variant) as steps  *)
(* of a request, the single-statement handlers as one step each, running   *)
(* next to UpdateGrupoHandler requests.                                    *)
(***************************************************************************)
\* Path values {id} of the requests; 3 names no row of any table.
IdStrInputs == {<<"1">>, <<"2">>, <<"3">>, <<"a">>}

DeleteGrupoNotFoundIsError(G, id, outcome) ==
    [err |-> outcome # "ok" \/ id \notin DOMAIN G,
     G |-> IF outcome = "ok" THEN [g \in DOMAIN G \ {id} |-> G[g]] ELSE G]

\* repository.DeleteGrupo: DELETE FROM grupo WHERE idGrupo = $1
DeleteGrupo(G, id, outcome) ==
    [err |-> outcome # "ok",
     G |-> IF outcome = "ok" THEN [g \in DOMAIN G \ {id} |-> G[g]] ELSE G]

CascadeGrupoNoAction(L, id) == L

\* FOREIGN KEY (idGrupo) REFERENCES Grupo(idGrupo) ON DELETE CASCADE
CascadeGrupo(L, id) == {l \in L : l.idGrupo # id}

\* FOREIGN KEY (idInvestigador) REFERENCES Investigador ON DELETE CASCADE
CascadeInvestigador(L, id) == {l \in L : l.idInvestigador # id}

\* repository.DeleteInvestigador: DELETE FROM investigador WHERE idInvestigador = $1
DeleteInvestigador(I, id, outcome) ==
    [err |-> outcome # "ok", I |-> IF outcome = "ok" THEN I \ {id} ELSE I]

\* repository.DeleteDetalleGrupoInvestigador: DELETE ... WHERE idGrupo_Investigador = $1
DeleteDetalleGrupoInvestigador(L, id, outcome) ==
    [err |-> outcome # "ok", L |-> IF outcome = "ok" THEN {l \in L : l.id # id} ELSE L]

\* strconv.Atoi(idStr); grupo, err := repository.GetGrupoByID(db, id), an
\* error of which is only logged
DG_GetGrupoByID(p, idStr, outcome) ==
    /\ procs[p].pc = "idle"
    /\ LET a == Atoi(idStr)
           r0 == [kind |-> "delete", pc |-> "dg_delete", id |-> a.val, found |-> FALSE,
                  oldFileID |-> 0, removeCalls |-> {}, status |-> 0, failedAt |-> "none",
                  storeFailed |-> FALSE, lookupFailed |-> FALSE, callsAfterFailure |-> 0]
           got == GetGrupoByID(grupo, a.val, outcome)
       IN  procs' = [procs EXCEPT ![p] =
                        IF ~a.ok THEN ReqDone(r0, 400, "id")
                        ELSE IF got.err THEN [r0 EXCEPT !.lookupFailed = TRUE]
                        ELSE IF ~got.found THEN r0
                        ELSE [r0 EXCEPT !.found = TRUE, !.oldFileID = got.row[1].archivo]]
    /\ UNCHANGED <<pagVars, storeVars, resp, driveVars, tx>>

\* repository.DeleteGrupo(db, id): 500 when it fails; storeFailed records
\* whether the store refused the statement, callsAfterFailure counts this
\* call when the lookup before it had failed
DG_DeleteGrupo(p, outcome) ==
    /\ procs[p].pc = "dg_delete"
    /\ LET r == [procs[p] EXCEPT !.storeFailed = (outcome # "ok"),
                                 !.callsAfterFailure = IF procs[p].lookupFailed THEN 1 ELSE 0]
           del == DeleteGrupo(grupo, r.id, outcome)
       IN  /\ grupo' = del.G
           /\ links' = IF del.err THEN links ELSE CascadeGrupo(links, r.id)
           /\ procs' = [procs EXCEPT ![p] =
                           IF del.err THEN ReqDone(r, 500, "delete")
                           ELSE IF r.found /\ r.oldFileID # 0 THEN [r EXCEPT !.pc = "dg_rm"]
                           ELSE ReqDone(r, 204, "none")]
    /\ UNCHANGED <<pagVars, investigador, nextGrupoId, nextLinkId, resp, driveVars, tx>>

\* removeFile(grupo.Archivo) after the delete, a failure only logged; 204
DG_RemoveFile(p, rmOutcome) ==
    /\ procs[p].pc = "dg_rm"
    /\ drive' = RemoveFile(drive, procs[p].oldFileID, rmOutcome)
    /\ procs' = [procs EXCEPT ![p] =
                    ReqDone([@ EXCEPT !.removeCalls = @ \cup {procs[p].oldFileID}],
                            StatusAfterRemoveFile(204, rmOutcome), "none")]
    /\ UNCHANGED <<pagVars, storeVars, resp, nextFileId, tx>>

\* No request is being handled and no response is being written.
Quiet == resp = NoResp /\ \A p \in ReqIds : procs[p].pc = "idle"

\* DELETE /investigadores/{id}
DeleteInvestigadorHandler(idStr, outcome) ==
    /\ Quiet
    /\ \E a \in {Atoi(idStr)} :
          IF ~a.ok
          THEN /\ resp' = [kind |-> "delInvestigador", status |-> 400, idStr |-> idStr,
                           storeFailed |-> FALSE]
               /\ UNCHANGED <<investigador, links>>
          ELSE \E del \in {DeleteInvestigador(investigador, a.val, outcome)} :
                  /\ investigador' = del.I
                  /\ links' = IF del.err THEN links ELSE CascadeInvestigador(links, a.val)
                  /\ resp' = [kind |-> "delInvestigador",
                              status |-> IF del.err THEN 500 ELSE 204,
                              idStr |-> idStr, storeFailed |-> del.err]
    /\ UNCHANGED <<pagVars, grupo, nextGrupoId, nextLinkId, driveVars, procs, tx>>

\* DELETE /detalles/{id}
DeleteDetalleGrupoInvestigadorHandler(idStr, outcome) ==
    /\ Quiet
    /\ \E a \in {Atoi(idStr)} :
          IF ~a.ok
          THEN /\ resp' = [kind |-> "delDetalle", status |-> 400, idStr |-> idStr,
                           storeFailed |-> FALSE]
               /\ UNCHANGED links
          ELSE \E del \in {DeleteDetalleGrupoInvestigador(links, a.val, outcome)} :
                  /\ links' = del.L
                  /\ resp' = [kind |-> "delDetalle",
                              status |-> IF del.err THEN 500 ELSE 204,
                              idStr |-> idStr, storeFailed |-> del.err]
    /\ UNCHANGED <<pagVars, investigador, grupo, nextGrupoId, nextLinkId, driveVars, procs, tx>>

\* What a lookup handler answers: 400 for a bad id, 500 for a repository
\* error, 404 for nil without error, 200 with the entity.
LookupResponse(kind, idStr, a, got) ==
    IF ~a.ok THEN [kind |-> kind, status |-> 400, idStr |-> idStr, storeFailed |-> FALSE,
                   data |-> << >>]
    ELSE IF got.err THEN [kind |-> kind, status |-> 500, idStr |-> idStr,
                          storeFailed |-> TRUE, data |-> << >>]
    ELSE IF ~got.found THEN [kind |-> kind, status |-> 404, idStr |-> idStr,
                             storeFailed |-> FALSE, data |-> << >>]
    ELSE [kind |-> kind, status |-> 200, idStr |-> idStr, storeFailed |-> FALSE,
          data |-> got.row]

\* GET /grupos/{id}
GetGrupoHandler(idStr, outcome) ==
    /\ Quiet
    /\ \E a \in {Atoi(idStr)} :
          resp' = LookupResponse("getGrupo", idStr, a, GetGrupoByID(grupo, a.val, outcome))
    /\ UNCHANGED <<pagVars, storeVars, driveVars, procs, tx>>

\* repository.GetInvestigadorByID: found is FALSE for sql.ErrNoRows
GetInvestigadorByID(I, id, outcome) ==
    IF outcome = "error" THEN [err |-> TRUE, found |-> FALSE, row |-> << >>]
    ELSE IF id \notin I THEN [err |-> FALSE, found |-> FALSE, row |-> << >>]
    ELSE [err |-> FALSE, found |-> TRUE, row |-> <<[id |-> id] @@ Investigadores[id]>>]

\* GET /investigadores/{id}
GetInvestigadorHandler(idStr, outcome) ==
    /\ Quiet
    /\ \E a \in {Atoi(idStr)} :
          resp' = LookupResponse("getInvestigador", idStr, a,
                                 GetInvestigadorByID(investigador, a.val, outcome))
    /\ UNCHANGED <<pagVars, storeVars, driveVars, procs, tx>>

\* repository.GetDetalleGrupoInvestigadorByID: found is FALSE for sql.ErrNoRows
GetDetalleGrupoInvestigadorByID(L, id, outcome) ==
    IF outcome = "error" THEN [err |-> TRUE, found |-> FALSE, row |-> << >>]
    ELSE IF ~\E l \in L : l.id = id THEN [err |-> FALSE, found |-> FALSE, row |-> << >>]
    ELSE [err |-> FALSE, found |-> TRUE, row |-> <<CHOOSE l \in L : l.id = id>>]

\* GET /detalles/{id}
GetDetalleGrupoInvestigadorHandler(idStr, outcome) ==
    /\ Quiet
    /\ \E a \in {Atoi(idStr)} :
          resp' = LookupResponse("getDetalle", idStr, a,
                                 GetDetalleGrupoInvestigadorByID(links, a.val, outcome))
    /\ UNCHANGED <<pagVars, storeVars, driveVars, procs, tx>>

\* Store calls of GetGrupoDetails that can fail: GetGrupoByID, the member
\* query, a row scan, the row iteration.
DetailsFails == {"get", "query", "scan", "iter"}

\* repository.GetGrupoDetails: the group row, then its members with roles
GetGrupoDetails(G, L, id, fail, tb) ==
    LET got == GetGrupoByID(G, id, IF fail = "get" THEN "error" ELSE "ok")
        rows == IntegrantesOfGrupo(L, id, tb)
    IN  IF got.err \/ ~got.found THEN got
        ELSE IF fail \in {"query", "iter"} \/ (fail = "scan" /\ rows # << >>)
        THEN [err |-> TRUE, found |-> FALSE, row |-> << >>]
        ELSE [err |-> FALSE, found |-> TRUE,
              row |-> <<[id |-> id, investigadores |-> IntegrantesConRol(rows, Len(rows))]>>]

\* GET /grupos/{id}/details
GetGrupoDetailsHandler(idStr, fail, tb) ==
    /\ Quiet
    /\ \E a \in {Atoi(idStr)} :
          resp' = LookupResponse("getDetails", idStr, a,
                                 GetGrupoDetails(grupo, links, a.val, fail, tb))
    /\ UNCHANGED <<pagVars, storeVars, driveVars, procs, tx>>

DeleteArrives ==
    /\ resp = NoResp
    /\ \E p \in ReqIds, idStr \in IdStrInputs, o \in StmtOutcomes : DG_GetGrupoByID(p, idStr, o)

DeleteGrupoStep == \E p \in ReqIds, o \in StmtOutcomes : DG_DeleteGrupo(p, o)

DeleteRemoveFileStep == \E p \in ReqIds, o \in StmtOutcomes : DG_RemoveFile(p, o)

\* PUT /grupos/{id} with an empty form, with or without a new attachment
UpdateKeepingFieldsArrives ==
    /\ resp = NoResp
    /\ \E p \in ReqIds, id \in UpdIdInputs, hasFile \in BOOLEAN, o \in StmtOutcomes :
          UG_GetGrupoByID(p, id, NoFields, hasFile, o)

DeleteInvestigadorRequest ==
    \E idStr \in IdStrInputs, o \in StmtOutcomes : DeleteInvestigadorHandler(idStr, o)

DeleteDetalleRequest ==
    \E idStr \in IdStrInputs, o \in StmtOutcomes :
        DeleteDetalleGrupoInvestigadorHandler(idStr, o)

GetGrupoRequest == \E idStr \in IdStrInputs, o \in StmtOutcomes : GetGrupoHandler(idStr, o)

GetInvestigadorRequest ==
    \E idStr \in IdStrInputs, o \in StmtOutcomes : GetInvestigadorHandler(idStr, o)

GetDetalleRequest ==
    \E idStr \in IdStrInputs, o \in StmtOutcomes :
        GetDetalleGrupoInvestigadorHandler(idStr, o)

GetGrupoDetailsRequest ==
    \E idStr \in IdStrInputs, fail \in DetailsFails \cup {"none"}, tb \in TieBreaks :
        GetGrupoDetailsHandler(idStr, fail, tb)

\* Group 1 with a stored attachment and group 2 without, one link each, both
\* investigators.
InitDel ==
    /\ pageStr = << >> /\ limitStr = << >> /\ pgOut = NoResp
    /\ grupo = (1 :> (PayloadFor(1) @@ [archivo |-> 1])) @@
               (2 :> (PayloadFor(2) @@ [archivo |-> 0]))
    /\ nextGrupoId = 3
    /\ links = {[id |-> 1, idGrupo |-> 1, idInvestigador |-> 1, rol |-> "Coordinador"],
                [id |-> 2, idGrupo |-> 2, idInvestigador |-> 1, rol |-> "Integrante"]}
    /\ nextLinkId = 3
    /\ investigador = DOMAIN Investigadores
    /\ resp = NoResp
    /\ drive = {1} /\ nextFileId = 2
    /\ procs = [p \in ReqIds |-> NoReq]
    /\ tx = NoTx

NextDel ==
    \/ DeleteArrives
    \/ DeleteGrupoStep
    \/ DeleteRemoveFileStep
    \/ UpdateKeepingFieldsArrives
    \/ SaveUploadedFileStep
    \/ UpdateGrupoStep
    \/ RemoveNewStep
    \/ RemoveOldStep
    \/ ReturnStep
    \/ DeleteInvestigadorRequest
    \/ DeleteDetalleRequest
    \/ GetGrupoRequest
    \/ GetInvestigadorRequest
    \/ GetDetalleRequest
    \/ GetGrupoDetailsRequest
    \/ ResponseSent

SpecDel == InitDel /\ [][NextDel]_vars

\* C16: a DeleteGrupo that succeeds leaves no row of the group and no link
\* referencing it; a DeleteGrupo that fails is answered 500 and leaves the
\* group rows, the links and the stored attachments as they were; the handler
\* calls the attachment service only after a successful delete, when the group
\* row is gone.
C16_DeleteCascadesThenRemoves ==
    [][\A p \in ReqIds :
          /\ (procs[p].pc = "dg_delete" /\ procs'[p].pc # "dg_delete") =>
                IF procs'[p].failedAt = "delete"
                THEN /\ grupo' = grupo /\ links' = links /\ drive' = drive
                     /\ procs'[p].pc = "done" /\ procs'[p].status = 500
                     /\ procs'[p].removeCalls = {}
                ELSE /\ procs[p].id \notin DOMAIN grupo'
                     /\ \A l \in links' : l.idGrupo # procs[p].id
                     /\ drive' = drive
          /\ (procs[p].pc = "idle" /\ procs'[p].pc # "idle" /\ procs'[p].kind = "delete")
                => drive' = drive /\ procs'[p].removeCalls = {}
          /\ (procs[p].pc = "dg_rm" /\ procs'[p].pc # "dg_rm")
                => /\ procs[p].id \notin DOMAIN grupo
                   /\ grupo' = grupo /\ links' = links
                   /\ drive \ drive' \subseteq {procs[p].oldFileID}]_vars

C16_Witness ==
    \E p \in ReqIds :
        /\ procs[p].pc = "done" /\ procs[p].kind = "delete"
        /\ procs[p].status = 204 /\ procs[p].removeCalls = {1}
        /\ 1 \notin DOMAIN grupo /\ 1 \notin drive
        /\ links # {} /\ \A l \in links : l.idGrupo # 1

LookupKinds == {"getGrupo", "getDetails", "getInvestigador", "getDetalle"}

Present(kind, id) ==
    IF kind \in {"getGrupo", "getDetails"} THEN id \in DOMAIN grupo
    ELSE IF kind = "getInvestigador" THEN id \in investigador
    ELSE \E l \in links : l.id = id

\* C19: a lookup by id answers 500 exactly when a store call failed, 404
\* exactly when no store call failed and the entity is absent, and 200
\* otherwise; an update request answers 404 only for an absent group, goes on
\* only for a present one, and its UpdateGrupo reports success only when the
\* row it names exists.
C19_NotFoundIsDistinct ==
    [][/\ (resp = NoResp /\ resp' # NoResp /\ resp'.kind \in LookupKinds
             /\ Atoi(resp'.idStr).ok)
              => LET present == Present(resp'.kind, Atoi(resp'.idStr).val)
                 IN  /\ resp'.status = 500 <=> resp'.storeFailed
                     /\ resp'.status = 404 <=> (~resp'.storeFailed /\ ~present)
                     /\ resp'.status = 200 <=> (~resp'.storeFailed /\ present)
       /\ \A p \in ReqIds :
            /\ (procs[p].pc = "idle" /\ procs'[p].pc # "idle" /\ procs'[p].kind = "update")
                  => /\ procs'[p].status = 404 => procs'[p].id \notin DOMAIN grupo
                     /\ procs'[p].id \notin DOMAIN grupo
                           => procs'[p].pc = "done" /\ procs'[p].status \in {404, 500}
            /\ (procs[p].pc = "update" /\ procs'[p].pc \in {"done", "rmold"}
                  /\ procs'[p].failedAt = "none")
                  => procs[p].id \in DOMAIN grupo]_vars

\* C17: when an update request writes its row, every column whose form value
\* is empty keeps the value stored just before the write, every column whose
\* form value is non-empty takes it, the attachment reference is kept when no
\* file was uploaded, and no other group row and no link row changes.
C17_EmptyMeansUnchanged ==
    [][\A p \in ReqIds :
          (/\ procs[p].pc = "update" /\ procs'[p].pc \in {"done", "rmold"}
           /\ procs'[p].failedAt = "none" /\ procs[p].id \in DOMAIN grupo)
            => LET id == procs[p].id
                   form == procs[p].form
                   before == grupo[id]
                   after == grupo'[id]
               IN  /\ after.nombre = FormOr(form.nombre, before.nombre)
                   /\ after.numeroResolucion
                         = FormOr(form.numeroResolucion, before.numeroResolucion)
                   /\ after.linea = FormOr(form.linea, before.linea)
                   /\ after.tipo = FormOr(form.tipo, before.tipo)
                   /\ after.year = (IF form.fecha = << >> THEN before.year
                                    ELSE ParseFecha(form.fecha).year)
                   /\ procs[p].newFileID = 0 => after.archivo = before.archivo
                   /\ \A g \in DOMAIN grupo \ {id} : grupo'[g] = grupo[g]
                   /\ DOMAIN grupo' = DOMAIN grupo
                   /\ links' = links]_vars

\* C20: an update request calls removeFile on the attachment it read from the
\* row only in the step that follows a successful UpdateGrupo, which was given
\* the row pointing to the newly stored attachment; no other step of the
\* request removes that attachment.
C20_OldRemovedAfterUpdate ==
    [][\A p \in ReqIds :
          /\ (/\ procs[p].pc \in {"upload", "update", "rmnew", "rmold"}
              /\ procs'[p] # procs[p] /\ procs[p].oldFileID # 0
              /\ \/ procs[p].oldFileID \in procs'[p].removeCalls \ procs[p].removeCalls
                 \/ procs[p].oldFileID \in drive \ drive')
                => procs[p].pc = "rmold"
          /\ (procs[p].pc # "rmold" /\ procs'[p].pc = "rmold")
                => /\ procs[p].pc = "update"
                   /\ procs[p].newFileID # 0
                   /\ procs[p].id \in DOMAIN grupo'
                         => grupo'[procs[p].id].archivo = procs[p].newFileID]_vars

C20_Witness ==
    \E p \in ReqIds :
        /\ procs[p].pc = "done" /\ procs[p].kind = "update"
        /\ procs[p].status = 200
        /\ procs[p].oldFileID # 0
        /\ procs[p].removeCalls = {procs[p].oldFileID}
        /\ procs[p].oldFileID \notin drive
        /\ grupo[procs[p].id].archivo = procs[p].newFileID

\* C21: a panic raised in the body of a composite create while its
\* transaction is open is followed by a rollback and only then propagates:
\* once the handler is left the transaction is rolled back, never committed
\* and not open, none of its rows is in the store, and the panic was raised
\* again.
C21_PanicRollsBack ==
    (tx.pc # "idle" /\ tx.panicked) =>
        /\ tx.propagated => tx.outcome = "rolledback"
        /\ tx.outcome \in {"none", "rolledback"}
        /\ tx.pc = "done" =>
              /\ tx.outcome = "rolledback" /\ tx.propagated
              /\ tx.grupoID \notin DOMAIN grupo
              /\ \A l \in links : l \notin tx.pendLinks

C21_Witness ==
    /\ tx.pc = "done" /\ tx.panicked /\ tx.propagated
    /\ tx.outcome = "rolledback"
    /\ tx.grupoID # 0 /\ tx.pendLinks # {}
    /\ ~tx.err

\* C25: once a composite create has run its deferred function, a success
\* response (201) was written only if the transaction committed and the group
\* of the response body is in the store.
C25_SuccessOnlyIfCommitted ==
    (tx.pc = "done" /\ tx.status = 201) =>
        /\ tx.outcome = "committed"
        /\ tx.grupoID \in DOMAIN grupo

\* C22: once a store call of an update or delete request has failed, the
\* request makes no further store call, touches no attachment other than the
\* one it uploaded itself, and answers with an error.
C22_NoCallAfterFailure ==
    \A p \in ReqIds :
        /\ (procs[p].pc # "idle" /\ procs[p].kind = "update"
              /\ procs[p].failedAt \in {"get", "update"}) =>
               /\ procs[p].removeCalls \subseteq {procs[p].newFileID}
               /\ procs[p].pc = "done" => procs[p].status = 500
        /\ (procs[p].pc # "idle" /\ procs[p].kind = "delete" /\ procs[p].lookupFailed) =>
               /\ procs[p].callsAfterFailure = 0
               /\ procs[p].removeCalls = {}
               /\ procs[p].pc = "done" => procs[p].status = 500

(***************************************************************************)
(* GET /grupos as the sequence of store calls it makes, each call reading  *)
(* the store as it is when the call runs: count, then (listing) the id     *)
(* page and the detail query, or (search) the one data query.  Group       *)
(* creations and deletions of other requests run between the calls.        *)
(***************************************************************************)
\* Query strings of the step-wise listing requests.
ListFilters ==
    {[grupo |-> g, investigador |-> << >>, year |-> << >>, linea |-> << >>, tipo |-> << >>] :
        g \in GrupoFilters}
ListPageInputs == {<< >>, <<"2">>}
ListLimitInputs == {<< >>, <<"1">>}

\* if totalItems == 0 { return []models.GrupoWithInvestigadores{}, 0, nil }
AfterCountNoEarlyReturn(totalItems, isSearch) ==
    IF isSearch THEN "lg_data" ELSE "lg_ids"

AfterCount(totalItems, isSearch) ==
    IF totalItems = 0 THEN "done"
    ELSE IF isSearch THEN "lg_data" ELSE "lg_ids"

\* The handler's answer once the repository call has returned.
ListDone(r, err, items, totalItems) ==
    IF err THEN [r EXCEPT !.pc = "done", !.status = 500]
    ELSE [r EXCEPT !.pc = "done", !.status = 200, !.data = items,
                   !.totalItems = totalItems,
                   !.totalPages = TotalPages(totalItems, r.limit)]

\* GetPaginationParams, offset, and the count query of either repository call
LG_Count(p, f, ps, ls, outcome) ==
    /\ procs[p].pc = "idle"
    /\ LET pg == GetPaginationParams(ps, ls)
           r0 == [kind |-> "list", pc |-> "lg_count", filters |-> f, isSearch |-> IsSearch(f),
                  page |-> pg.page, limit |-> pg.limit,
                  offset |-> WrapInt((pg.page - 1) * pg.limit),
                  queries |-> << >>, counted |-> 0, countOk |-> FALSE,
                  groupIDOrder |-> << >>, data |-> << >>, totalItems |-> 0,
                  totalPages |-> 0, status |-> 0]
           r1 == [r0 EXCEPT !.queries = <<"count">>]
           n == IF r0.isSearch THEN FilteredGroupsCount(grupo, links, f)
                ELSE Cardinality(DOMAIN grupo)
       IN  procs' = [procs EXCEPT ![p] =
               IF r0.isSearch /\ f.year # << >> /\ ~Atoi(f.year).ok
               THEN ListDone(r0, TRUE, << >>, 0)
               ELSE IF outcome # "ok" THEN ListDone(r1, TRUE, << >>, 0)
               ELSE IF AfterCount(n, r0.isSearch) = "done"
                    THEN ListDone([r1 EXCEPT !.countOk = TRUE, !.counted = n], FALSE, << >>, 0)
                    ELSE [r1 EXCEPT !.countOk = TRUE, !.counted = n,
                                    !.pc = AfterCount(n, r0.isSearch)]]
    /\ UNCHANGED <<pagVars, storeVars, resp, driveVars, tx>>

\* GetAllGruposWithDetails: the id page
LG_IDs(p, outcome) ==
    /\ procs[p].pc = "lg_ids"
    /\ LET r == [procs[p] EXCEPT !.queries = Append(@, "ids")]
           ids == PaginatedIDsQuery(grupo, r.limit, r.offset)
       IN  procs' = [procs EXCEPT ![p] =
               IF outcome # "ok" \/ OffsetRejected(r.offset) THEN ListDone(r, TRUE, << >>, 0)
               ELSE IF Len(ids) = 0 THEN ListDone(r, FALSE, << >>, r.counted)
               ELSE [r EXCEPT !.pc = "lg_details", !.groupIDOrder = ids]]
    /\ UNCHANGED <<pagVars, storeVars, resp, driveVars, tx>>

\* GetAllGruposWithDetails: the detail query for the ids of the page
LG_Details(p, outcome, tb) ==
    /\ procs[p].pc = "lg_details"
    /\ LET r == [procs[p] EXCEPT !.queries = Append(@, "details")]
       IN  procs' = [procs EXCEPT ![p] =
               IF outcome # "ok" THEN ListDone(r, TRUE, << >>, 0)
               ELSE ListDone(r, FALSE,
                             BuildResult(r.groupIDOrder, 1,
                                 DetailsCollapse(
                                     DetailsQuery(grupo, links, SeqToSet(r.groupIDOrder), tb),
                                     1, EmptyMap)),
                             r.counted)]
    /\ UNCHANGED <<pagVars, storeVars, resp, driveVars, tx>>

\* SearchGrupos: the data query (both CTEs and the joins in one statement)
LG_Data(p, outcome, tb) ==
    /\ procs[p].pc = "lg_data"
    /\ LET r == [procs[p] EXCEPT !.queries = Append(@, "data")]
       IN  procs' = [procs EXCEPT ![p] =
               IF outcome # "ok" \/ OffsetRejected(r.offset) THEN ListDone(r, TRUE, << >>, 0)
               ELSE ListDone(r, FALSE,
                             SearchCollapse(
                                 SearchDataRows(grupo, links, r.filters, r.limit, r.offset, tb),
                                 1, EmptyMap, << >>),
                             r.counted)]
    /\ UNCHANGED <<pagVars, storeVars, resp, driveVars, tx>>

ListArrives ==
    \E p \in ReqIds, f \in ListFilters, ps \in ListPageInputs, ls \in ListLimitInputs,
       o \in StmtOutcomes : LG_Count(p, f, ps, ls, o)

ListIDsStep == \E p \in ReqIds, o \in StmtOutcomes : LG_IDs(p, o)

ListDetailsStep == \E p \in ReqIds, o \in StmtOutcomes, tb \in TieBreaks : LG_Details(p, o, tb)

SearchDataStep == \E p \in ReqIds, o \in StmtOutcomes, tb \in TieBreaks : LG_Data(p, o, tb)

InitList == InitDel

NextList ==
    \/ ListArrives
    \/ ListIDsStep
    \/ ListDetailsStep
    \/ SearchDataStep
    \/ CreateGrupo
    \/ DeleteArrives
    \/ DeleteGrupoStep
    \/ DeleteRemoveFileStep
    \/ ReturnStep
    \/ ResponseSent

SpecList == InitList /\ [][NextList]_vars

\* C23: the first store call of a listing or search is the count query, and
\* when the count is 0 the request ends there: no id, detail or data query,
\* answer 200 with an empty list, totalItems 0 and totalPages 0.
C23_ZeroCountShortCircuits ==
    \A p \in ReqIds :
        (procs[p].pc # "idle" /\ procs[p].kind = "list") =>
            /\ procs[p].queries # << >> => procs[p].queries[1] = "count"
            /\ (procs[p].countOk /\ procs[p].counted = 0) =>
                  /\ procs[p].pc = "done"
                  /\ procs[p].queries = <<"count">>
                  /\ procs[p].status = 200
                  /\ procs[p].data = << >>
                  /\ procs[p].totalItems = 0
                  /\ procs[p].totalPages = 0

\* a listing and a search that both counted 0, the search while groups exist
C23_Witness ==
    /\ \E p \in ReqIds :
          /\ procs[p].pc = "done" /\ procs[p].kind = "list" /\ ~procs[p].isSearch
          /\ procs[p].countOk /\ procs[p].counted = 0 /\ procs[p].status = 200
    /\ \E p \in ReqIds :
          /\ procs[p].pc = "done" /\ procs[p].kind = "list" /\ procs[p].isSearch
          /\ procs[p].countOk /\ procs[p].counted = 0 /\ procs[p].status = 200

\* C26: every answered listing or search holds at most
\* min(limit, max(0, totalItems - offset)) groups, and holds any group only
\* when totalItems > 0, whatever creations and deletions ran between its
\* store calls.
C26_PageWithinCount ==
    \A p \in ReqIds :
        (procs[p].pc = "done" /\ procs[p].kind = "list" /\ procs[p].status = 200) =>
            /\ Len(procs[p].data) <=
                  Min(procs[p].limit,
                      IF procs[p].totalItems - procs[p].offset > 0
                      THEN procs[p].totalItems - procs[p].offset ELSE 0)
            /\ Len(procs[p].data) > 0 => procs[p].totalItems > 0

\* C24: the removal of an attachment that follows a successful database
\* write ends the request with success whether or not the removal works: 200
\* for an update that stored a new attachment, 204 for a delete, the store
\* left as the write made it.
C24_RemovalFailureIsNotFatal ==
    [][\A p \in ReqIds :
          /\ (procs[p].pc = "rmold" /\ procs'[p] # procs[p]) =>
                /\ procs'[p].pc = "done" /\ procs'[p].status = 200
                /\ procs'[p].newFileID # 0
                /\ procs'[p].oldFileID \in procs'[p].removeCalls
                /\ grupo' = grupo
          /\ (procs[p].pc = "dg_rm" /\ procs'[p] # procs[p]) =>
                /\ procs'[p].pc = "done" /\ procs'[p].status = 204
                /\ procs'[p].oldFileID \in procs'[p].removeCalls
                /\ procs'[p].id \notin DOMAIN grupo'
                /\ grupo' = grupo]_vars

\* an update and a delete, both answered with success, whose removal failed:
\* the attachment each tried to remove is still stored
C24_Witness ==
    /\ \E p \in ReqIds :
          /\ procs[p].pc = "done" /\ procs[p].kind = "update" /\ procs[p].status = 200
          /\ procs[p].oldFileID \in procs[p].removeCalls
          /\ procs[p].oldFileID \in drive
    /\ \E p \in ReqIds :
          /\ procs[p].pc = "done" /\ procs[p].kind = "delete" /\ procs[p].status = 204
          /\ procs[p].oldFileID \in procs[p].removeCalls
          /\ procs[p].oldFileID \in drive

(***************************************************************************)
(* Updates that upload a new attachment and deletes, on the stored groups, *)
(* with every store call and every attachment-service call succeeding.     *)
(***************************************************************************)
UploadingUpdateArrives ==
    /\ resp = NoResp
    /\ \E p \in ReqIds, id \in UpdIdInputs : UG_GetGrupoByID(p, id, NoFields, TRUE, "ok")

UploadSucceeds == \E p \in ReqIds : UG_SaveUploadedFile(p, "ok")

UpdateSucceeds == \E p \in ReqIds : UG_UpdateGrupo(p, "ok")

RemoveOldSucceeds == \E p \in ReqIds : UG_RemoveOld(p, "ok")

DeleteLookupSucceeds ==
    /\ resp = NoResp
    /\ \E p \in ReqIds, idStr \in IdStrInputs : DG_GetGrupoByID(p, idStr, "ok")

DeleteSucceeds == \E p \in ReqIds : DG_DeleteGrupo(p, "ok")

DeleteRemoveFileSucceeds == \E p \in ReqIds : DG_RemoveFile(p, "ok")

InitOrph == InitDel

NextOrph ==
    \/ UploadingUpdateArrives
    \/ UploadSucceeds
    \/ UpdateSucceeds
    \/ RemoveOldSucceeds
    \/ DeleteLookupSucceeds
    \/ DeleteSucceeds
    \/ DeleteRemoveFileSucceeds
    \/ ReturnStep

SpecOrph == InitOrph /\ [][NextOrph]_vars

\* C27: when no update and no delete is in progress, every attachment held
\* by the attachment service is the archivo of a stored group.
C27_NoOrphanAttachment ==
    (\A p \in ReqIds : procs[p].pc \in {"idle", "done"}) =>
        \A f \in drive : \E g \in DOMAIN grupo : grupo[g].archivo = f

(***************************************************************************)
(* Updates that each fill one form field and leave the others empty,       *)
(* without a file.                                                         *)
(***************************************************************************)
SingleFieldForms ==
    {[NoFields EXCEPT !.nombre = <<"z">>], [NoFields EXCEPT !.linea = <<"w">>]}

SingleFieldUpdateArrives ==
    \E p \in ReqIds, id \in UpdIdInputs, form \in SingleFieldForms, o \in StmtOutcomes :
        UG_GetGrupoByID(p, id, form, FALSE, o)

InitLost == InitUpd

NextLost ==
    \/ SingleFieldUpdateArrives
    \/ SaveUploadedFileStep
    \/ UpdateGrupoStep
    \/ ReturnStep

SpecLost == InitLost /\ [][NextLost]_vars

\* C28: when an update of a group that set only nombre and an update of the
\* same group that set only lineaInvestigacion have both been answered with
\* success, the stored row carries both new values.
C28_BothUpdatesTakeEffect ==
    \A p, q \in ReqIds :
        (/\ procs[p].pc = "done" /\ procs[q].pc = "done"
         /\ procs[p].kind = "update" /\ procs[q].kind = "update"
         /\ procs[p].status = 200 /\ procs[q].status = 200
         /\ procs[p].id = procs[q].id
         /\ procs[p].form.nombre # << >> /\ procs[q].form.linea # << >>)
            => /\ grupo[procs[p].id].nombre = procs[p].form.nombre
               /\ grupo[procs[p].id].linea = procs[q].form.linea

(***************************************************************************)
(* offset := (page - 1) * limit of the listing handlers, on the values the *)
(* pagination resolver returns.                                            *)
(***************************************************************************)
\* page and limit query strings; the largest page is MaxInt
OffsetPageInputs ==
    {<< >>, <<"0">>, <<"1">>, <<"2">>, <<"7">>, <<"5", "0">>, <<"3", "2", "8">>,
     <<"5", "4", "6", "2">>, <<"1", "0", "9", "2", "4">>, <<"3", "2", "7", "6", "7">>}
OffsetLimitInputs ==
    {<< >>, <<"1">>, <<"5">>, <<"1", "0">>, <<"1", "0", "0">>, <<"1", "5", "0">>}

InitOffset ==
    /\ pageStr \in OffsetPageInputs
    /\ limitStr \in OffsetLimitInputs
    /\ pgOut = NoResp
    /\ InitStore
    /\ resp = NoResp
    /\ drive = {} /\ nextFileId = 1
    /\ procs = [p \in ReqIds |-> NoReq]
    /\ tx = NoTx

\* page, limit := utils.GetPaginationParams(r); offset := (page - 1) * limit
ComputeOffset ==
    /\ pgOut = NoResp
    /\ \E pg \in {GetPaginationParams(pageStr, limitStr)} :
          pgOut' = [kind |-> "offset", page |-> pg.page, limit |-> pg.limit,
                    offset |-> WrapInt((pg.page - 1) * pg.limit)]
    /\ UNCHANGED <<pageStr, limitStr, storeVars, resp, driveVars, procs, tx>>

NextOffset == ComputeOffset

SpecOffset == InitOffset /\ [][NextOffset]_vars

\* C29: the offset of a listing request is non-negative and is the product
\* (page - 1) * limit of the resolved page and limit.
C29_OffsetIsProduct ==
    pgOut.kind = "offset" =>
        /\ pgOut.offset >= 0
        /\ pgOut.offset = (pgOut.page - 1) * pgOut.limit

(***************************************************************************)
(* SetupRoutes (routes/routes.go): the route table in registration order.  *)
(* A request goes to the first route whose path template and method match; *)
(* a {variable} segment matches any one path segment.                      *)
(***************************************************************************)
\* Longest request path, in segments.
MaxPathLen == 3

Var == "{}"

Route(method, template, handler) ==
    [method |-> method, template |-> template, prefix |-> FALSE, handler |-> handler]

RouteTable ==
    << Route("POST", <<"register">>, "RegisterHandler"),
       Route("POST", <<"login">>, "LoginHandler"),
       Route("GET", <<"investigadores">>, "GetInvestigadoresHandler"),
       Route("GET", <<"investigadores", "all">>, "GetAllInvestigadoresNoPaginationHandler"),
       Route("GET", <<"investigadores", Var>>, "GetInvestigadorHandler"),
       Route("GET", <<"investigadores", Var, "grupos">>, "GetGruposByInvestigadorHandler"),
       Route("GET", <<"grupos">>, "GetGruposHandler"),
       Route("GET", <<"grupos", Var>>, "GetGrupoHandler"),
       Route("GET", <<"grupos", Var, "details">>, "GetGrupoDetailsHandler"),
       Route("GET", <<"grupos", "with-details">>, "GetAllGruposWithDetailsHandler"),
       Route("GET", <<"detalles", Var>>, "GetDetalleGrupoInvestigadorHandler"),
       Route("GET", <<"grupos", Var, "detalles">>, "GetDetallesByGrupoHandler"),
       [method |-> "any", template |-> <<"uploads">>, prefix |-> TRUE, handler |-> "FileServer"],
       Route("POST", <<"investigadores">>, "CreateInvestigadorHandler"),
       Route("PUT", <<"investigadores", Var>>, "UpdateInvestigadorHandler"),
       Route("DELETE", <<"investigadores", Var>>, "DeleteInvestigadorHandler"),
       Route("POST", <<"grupos">>, "CreateGrupoHandler"),
       Route("POST", <<"grupos", "with-details">>, "CreateGrupoWithDetailsHandler"),
       Route("PUT", <<"grupos", Var>>, "UpdateGrupoHandler"),
       Route("DELETE", <<"grupos", Var>>, "DeleteGrupoHandler"),
       Route("POST", <<"detalles">>, "CreateDetalleGrupoInvestigadorHandler"),
       Route("PUT", <<"detalles", Var>>, "UpdateDetalleGrupoInvestigadorHandler"),
       Route("DELETE", <<"detalles", Var>>, "DeleteDetalleGrupoInvestigadorHandler") >>

\* The path template of a route matches the request path.
PathMatches(route, path) ==
    /\ IF route.prefix THEN Len(path) > Len(route.template)
       ELSE Len(path) = Len(route.template)
    /\ \A i \in 1..Len(route.template) :
          route.template[i] = Var \/ route.template[i] = path[i]

MethodMatches(route, method) == route.method \in {"any", method}

\* The handler of the first route that matches; a path that only routes of
\* other methods match is answered 405, any other path 404.
RECURSIVE FirstMatch(_, _, _, _)
FirstMatch(i, method, path, methodMismatch) ==
    IF i > Len(RouteTable)
    THEN IF methodMismatch THEN "MethodNotAllowed" ELSE "NotFound"
    ELSE IF ~PathMatches(RouteTable[i], path)
         THEN FirstMatch(i + 1, method, path, methodMismatch)
         ELSE IF MethodMatches(RouteTable[i], method) THEN RouteTable[i].handler
              ELSE FirstMatch(i + 1, method, path, TRUE)

RequestMethods == {"GET", "POST", "PUT", "DELETE"}
PathSegments ==
    {"grupos", "investigadores", "detalles", "with-details", "all", "details", "uploads", "1"}
RequestPaths == UNION {[1..n -> PathSegments] : n \in 1..MaxPathLen}

\* The router receives a request and selects its handler.
Dispatch ==
    /\ resp = NoResp
    /\ \E method \in RequestMethods, path \in RequestPaths :
          resp' = [kind |-> "routed", method |-> method, path |-> path,
                   handler |-> FirstMatch(1, method, path, FALSE)]
    /\ UNCHANGED <<pagVars, storeVars, driveVars, procs, tx>>

InitRoute == InitIdle

NextRoute ==
    \/ Dispatch
    \/ ResponseSent

SpecRoute == InitRoute /\ [][NextRoute]_vars

\* C30: GET /grupos/with-details is handled by GetAllGruposWithDetailsHandler
\* and GET /investigadores/all by GetAllInvestigadoresNoPaginationHandler.
C30_LiteralRoutesReached ==
    (resp.kind = "routed" /\ resp.method = "GET") =>
        /\ resp.path = <<"grupos", "with-details">>
              => resp.handler = "GetAllGruposWithDetailsHandler"
        /\ resp.path = <<"investigadores", "all">>
              => resp.handler = "GetAllInvestigadoresNoPaginationHandler"

====
